---- MODULE Spec2Model ----
(***************************************************************************)
(* Model of the subnet calculator's core library (subnet-utils) of          *)
(* Carl0s33/subnet-lab.                                                     *)
(*                                                                          *)
(* A JavaScript string is modelled as a sequence of one-character strings,  *)
(* so that the regular expressions, split/join, parseInt, Number and        *)
(* toString of the source are computed character by character.  A JS        *)
(* number is a record [nan, val]: NaN is [nan |-> TRUE], every other number *)
(* the source can produce here is an integer.                               *)
(***************************************************************************)
EXTENDS Integers, Sequences, FiniteSets, TLC

VARIABLES
    ipAddress,   \* calculateSubnet's first argument  (a string)
    subnetMask,  \* calculateSubnet's second argument (a string)
    str,         \* the argument of a one-string function
    num,         \* the argument of cidrToMask (a JS number)
    ipA,         \* the first argument of a two-string function, or of a second call
    ipB,         \* its second argument (a string)
    call,        \* the function that was applied, "none" before the call
    ret,         \* what the call returned or threw
    prev,        \* what the call before the last one returned or threw
    history,     \* useCalculationHistory: the state history (a list of items)
    storage,     \* localStorage: the value under STORAGE_KEY, null when absent
    results,     \* CalculadoraSubrede: state.results (a SubnetInfo or null)
    isCalculating, \* state.isCalculating
    isTouched,   \* state.isTouched
    showHistory  \* the state showHistory

\* The arguments a caller holds; no function of the library assigns them.
args == <<ipAddress, subnetMask, str, num, ipA, ipB>>

\* The state of the history hook and of its storage.
hook == <<history, storage>>

\* The state of the form next to its two inputs ipAddress and subnetMask.
form == <<results, isCalculating, isTouched, showHistory>>

\* What a call of a library function leaves alone.
idle == <<args, prev, hook, form>>

vars == <<ipAddress, subnetMask, str, num, ipA, ipB, call, ret, prev,
          history, storage, results, isCalculating, isTouched, showHistory>>

(***************************************************************************)
(* Outcomes: a returned value, or a thrown Error.  The source throws        *)
(* Error objects that carry only a message; kind is the error kind the      *)
(* message stands for and msg the message, outermost prefix first (a catch  *)
(* block that rethrows puts its own prefix in front of the message).        *)
(***************************************************************************)
Ok(v) == [ok |-> TRUE, val |-> v, kind |-> "none", msg |-> <<>>]

Err(kind, text) == [ok |-> FALSE, val |-> <<>>, kind |-> kind, msg |-> <<text>>]

Rethrow(prefix, r) == IF r.ok THEN r ELSE [r EXCEPT !.msg = <<prefix>> \o @]

(***************************************************************************)
(* JS numbers.                                                              *)
(***************************************************************************)
NaN == [nan |-> TRUE, val |-> 0]

Num(v) == [nan |-> FALSE, val |-> v]

isNaN(x) == x.nan

Pow2(k) == 2 ^ k

(***************************************************************************)
(* Characters.                                                              *)
(***************************************************************************)
Digits == <<"0", "1", "2", "3", "4", "5", "6", "7", "8", "9">>

DigitChars == {Digits[i] : i \in 1..10}

WhiteSpace == {" "}

DigitValue(c) == (CHOOSE i \in 1..10 : Digits[i] = c) - 1

Min(a, b) == IF a < b THEN a ELSE b

Max(a, b) == IF a > b THEN a ELSE b

(***************************************************************************)
(* String.prototype.split with a one-character separator, Array.join with   *)
(* a one-character separator, and replace(/\./g, '').                       *)
(***************************************************************************)
RECURSIVE split(_, _)
split(s, sep) ==
    IF \A i \in 1..Len(s) : s[i] # sep
    THEN <<s>>
    ELSE LET p == CHOOSE i \in 1..Len(s) :
                      s[i] = sep /\ \A j \in 1..(i - 1) : s[j] # sep
         IN  <<SubSeq(s, 1, p - 1)>> \o split(SubSeq(s, p + 1, Len(s)), sep)

RECURSIVE join(_, _)
join(parts, sep) ==
    IF Len(parts) = 0 THEN <<>>
    ELSE IF Len(parts) = 1 THEN parts[1]
    ELSE parts[1] \o <<sep>> \o join(Tail(parts), sep)

removeDots(s) == SelectSeq(s, LAMBDA c : c # ".")

startsWith(s, c) == Len(s) >= 1 /\ s[1] = c

(***************************************************************************)
(* The value of a run of digits in a radix, Number.prototype.toString and   *)
(* String.prototype.padStart.                                               *)
(***************************************************************************)
RECURSIVE digitsValue(_, _)
digitsValue(ds, radix) ==
    IF Len(ds) = 0 THEN 0
    ELSE digitsValue(SubSeq(ds, 1, Len(ds) - 1), radix) * radix
         + DigitValue(ds[Len(ds)])

RECURSIVE natToString(_, _)
natToString(v, radix) ==
    IF v < radix THEN <<Digits[v + 1]>>
    ELSE natToString(v \div radix, radix) \o <<Digits[(v % radix) + 1]>>

toString(x, radix) ==
    IF x.nan THEN <<"N", "a", "N">>
    ELSE IF x.val < 0 THEN <<"-">> \o natToString(0 - x.val, radix)
    ELSE natToString(x.val, radix)

padStart(s, width, c) ==
    IF Len(s) >= width THEN s
    ELSE [i \in 1..(width - Len(s)) |-> c] \o s

(***************************************************************************)
(* parseInt(s, radix): leading white space is skipped, one sign is taken,   *)
(* then the longest run of digits of the radix; NaN when that run is empty. *)
(* Whatever follows the run is ignored.                                     *)
(***************************************************************************)
parseInt(s, radix) ==
    LET isWs(i)  == i <= Len(s) /\ s[i] \in WhiteSpace
        first    == CHOOSE i \in 1..(Len(s) + 1) :
                        ~isWs(i) /\ \A j \in 1..(i - 1) : isWs(j)
        signed   == first <= Len(s) /\ s[first] \in {"+", "-"}
        start    == IF signed THEN first + 1 ELSE first
        isDig(i) == /\ i <= Len(s)
                    /\ s[i] \in DigitChars
                    /\ DigitValue(s[i]) < radix
        stop     == CHOOSE i \in start..(Len(s) + 1) :
                        ~isDig(i) /\ \A j \in start..(i - 1) : isDig(j)
        mag      == digitsValue(SubSeq(s, start, stop - 1), radix)
    IN  IF stop = start THEN NaN
        ELSE IF signed /\ s[first] = "-" THEN Num(0 - mag)
        ELSE Num(mag)

(***************************************************************************)
(* Number(s), as Array.map(Number) applies it to the pieces of a split on   *)
(* '.': white space is trimmed on both sides, the empty string is 0, and    *)
(* the whole rest must be an optionally signed run of decimal digits.       *)
(* (The pieces hold no '.', and the input alphabet has no letter of an      *)
(* exponent, hex or Infinity literal.)                                      *)
(***************************************************************************)
Number(s) ==
    LET isWs(i) == s[i] \in WhiteSpace
        lo      == CHOOSE i \in 1..(Len(s) + 1) :
                       (i = Len(s) + 1 \/ ~isWs(i)) /\ \A j \in 1..(i - 1) : isWs(j)
        hi      == CHOOSE i \in 0..Len(s) :
                       (i = 0 \/ ~isWs(i)) /\ \A j \in (i + 1)..Len(s) : isWs(j)
        t       == SubSeq(s, lo, hi)
        signed  == Len(t) >= 1 /\ t[1] \in {"+", "-"}
        body    == IF signed THEN Tail(t) ELSE t
    IN  IF Len(t) = 0 THEN Num(0)
        ELSE IF Len(body) = 0 \/ \E i \in 1..Len(body) : body[i] \notin DigitChars
        THEN NaN
        ELSE IF signed /\ t[1] = "-" THEN Num(0 - digitsValue(body, 10))
        ELSE Num(digitsValue(body, 10))

(***************************************************************************)
(* validateIP: /^(\d{1,3})\.(\d{1,3})\.(\d{1,3})\.(\d{1,3})$/, then every   *)
(* captured group, as a number, lies in 0..255.                             *)
(***************************************************************************)
\* \d{1,3} matched from position p: the positions a match can end before.
digits13(s, p) ==
    {q \in (p + 1)..Min(p + 3, Len(s) + 1) : \A i \in p..(q - 1) : s[i] \in DigitChars}

\* \. matched at position p.
dotAt(s, p) == p <= Len(s) /\ s[p] = "."

\* \d{1,3}\. matched from position p: the positions of the dot.
group13Dot(s, p) == {q \in digits13(s, p) : dotAt(s, q)}

\* \d{1,3}$ matched from position p: the position after the end of s.
group13End(s, p) == {q \in digits13(s, p) : q = Len(s) + 1}

\* The capture groups of every way the whole of s matches ipRegex;
\* a, b and c are the positions of the three dots.
ipRegexMatches(s) ==
    UNION {UNION {UNION {
        {<<SubSeq(s, 1, a - 1), SubSeq(s, a + 1, b - 1),
           SubSeq(s, b + 1, c - 1), SubSeq(s, c + 1, d - 1)>>
            : d \in group13End(s, c + 1)}
        : c \in group13Dot(s, b + 1)}
        : b \in group13Dot(s, a + 1)}
        : a \in group13Dot(s, 1)}

\* validateIP without the range check on the octets.
validateIP_NoRange(ip) == ipRegexMatches(ip) # {}

validateIP(ip) ==
    LET matches == ipRegexMatches(ip)
    IN  IF matches = {} THEN FALSE
        ELSE LET match  == CHOOSE m \in matches : TRUE
                 octets == [i \in 1..4 |-> Number(match[i])]
             IN  \A i \in 1..4 : octets[i].val >= 0 /\ octets[i].val <= 255

(***************************************************************************)
(* ipToBinary: each piece of ip.split('.') is parsed in base 10, written in *)
(* base 2 and padded to 8 characters.                                       *)
(***************************************************************************)
\* ipToBinary without the padding to 8 characters.
ipToBinary_NoPadding(ip) ==
    IF ~validateIP(ip) THEN Err("InvalidAddress", "Endereço IP inválido")
    ELSE LET parts == split(ip, ".")
         IN  Ok(join([i \in 1..Len(parts) |-> toString(parseInt(parts[i], 10), 2)],
                     "."))

ipToBinary(ip) ==
    IF ~validateIP(ip) THEN Err("InvalidAddress", "Endereço IP inválido")
    ELSE LET parts == split(ip, ".")
         IN  Ok(join([i \in 1..Len(parts) |->
                        padStart(toString(parseInt(parts[i], 10), 2), 8, "0")],
                     "."))

(***************************************************************************)
(* validateSubnetMask: the CIDR form by parseInt, the dotted form by the    *)
(* binary expansion matching /^[01]+$/ and /^1*0*$/ with 32 characters.     *)
(***************************************************************************)
\* /^[01]+$/
hasOnlyBinaryRe(b) == Len(b) >= 1 /\ \A i \in 1..Len(b) : b[i] \in {"0", "1"}

\* hasLeadingOnesRe without the anchors: /1*0*/ matches every string.
hasLeadingOnesRe_Unanchored(b) == TRUE

\* /^1*0*$/ : k ones, then zeros to the end.
hasLeadingOnesRe(b) ==
    \E k \in 0..Len(b) :
        /\ \A i \in 1..k : b[i] = "1"
        /\ \A i \in (k + 1)..Len(b) : b[i] = "0"

validateSubnetMask(mask) ==
    IF startsWith(mask, "/")
    THEN LET cidr == parseInt(Tail(mask), 10)
         IN  ~isNaN(cidr) /\ cidr.val >= 0 /\ cidr.val <= 32
    ELSE IF validateIP(mask)
    THEN LET binary == removeDots(ipToBinary(mask).val)
         IN  hasOnlyBinaryRe(binary) /\ hasLeadingOnesRe(binary) /\ Len(binary) = 32
    ELSE FALSE

(***************************************************************************)
(* binaryToIp: /^([01]{8}\.?){4}$/, then each piece of split('.') parsed in *)
(* base 2 and written in base 10.                                           *)
(***************************************************************************)
\* ([01]{8}\.?) matched from position p: the positions a match can end before.
binaryGroup(s, p) ==
    IF p + 7 <= Len(s) /\ \A i \in p..(p + 7) : s[i] \in {"0", "1"}
    THEN {p + 8} \cup (IF dotAt(s, p + 8) THEN {p + 9} ELSE {})
    ELSE {}

binaryRegexTest(s) ==
    LET step(ps) == UNION {binaryGroup(s, p) : p \in ps}
    IN  (Len(s) + 1) \in step(step(step(step({1}))))

\* binaryToIp writing the parsed groups in base 2.
binaryToIp_WrittenInBase2(binary) ==
    IF ~binaryRegexTest(binary)
    THEN Err("InvalidFormat", "Formato binário inválido. Use o formato: 11000000.10101000.00000001.00000001")
    ELSE LET parts == split(binary, ".")
         IN  Ok(join([i \in 1..Len(parts) |-> toString(parseInt(parts[i], 2), 2)],
                     "."))

binaryToIp(binary) ==
    IF ~binaryRegexTest(binary)
    THEN Err("InvalidFormat", "Formato binário inválido. Use o formato: 11000000.10101000.00000001.00000001")
    ELSE LET parts == split(binary, ".")
         IN  Ok(join([i \in 1..Len(parts) |-> toString(parseInt(parts[i], 2), 10)],
                     "."))

(***************************************************************************)
(* cidrToMask and maskToCidr.                                               *)
(***************************************************************************)
\* maskOctet subtracting from 255.
maskOctet_From255(cidr, i) ==
    LET bits == Min(8, Max(0, cidr - (i * 8)))
    IN  IF bits = 0 THEN 0 ELSE 255 - Pow2(8 - bits)

\* The value pushed for octet i (0-based) of the mask.
maskOctet(cidr, i) ==
    LET bits == Min(8, Max(0, cidr - (i * 8)))
    IN  IF bits = 0 THEN 0 ELSE 256 - Pow2(8 - bits)

\* cidrToMask without the upper limit.
cidrToMask_NoUpperLimit(cidr) ==
    IF isNaN(cidr) \/ cidr.val < 0
    THEN Err("OutOfRange", "CIDR deve estar entre 0 e 32")
    ELSE Ok(join([i \in 1..4 |-> toString(Num(maskOctet(cidr.val, i - 1)), 10)], "."))

cidrToMask(cidr) ==
    IF isNaN(cidr) \/ cidr.val < 0 \/ cidr.val > 32
    THEN Err("OutOfRange", "CIDR deve estar entre 0 e 32")
    ELSE Ok(join([i \in 1..4 |-> toString(Num(maskOctet(cidr.val, i - 1)), 10)], "."))

\* countOnes matching /0/g.
countOnes_Zeros(b) == Len(SelectSeq(b, LAMBDA c : c = "0"))

\* (binary.match(/1/g) || []).length
countOnes(b) == Len(SelectSeq(b, LAMBDA c : c = "1"))

maskToCidr(mask) ==
    IF ~validateSubnetMask(mask)
    THEN Err("InvalidMask", "Máscara de sub-rede inválida")
    ELSE LET bin == ipToBinary(mask)
         IN  IF bin.ok THEN Ok(countOnes(removeDots(bin.val)))
             ELSE Rethrow("Falha ao converter máscara para CIDR: ", bin)

(***************************************************************************)
(* getWildcardMask: 255 - parseInt(piece, 10) for each piece of the split.  *)
(***************************************************************************)
\* The subtraction taken from 256.
minusFrom255_From256(x) == IF x.nan THEN NaN ELSE Num(256 - x.val)

\* 255 - x for a JS number x.
minusFrom255(x) == IF x.nan THEN NaN ELSE Num(255 - x.val)

getWildcardMask(mask) ==
    IF ~validateSubnetMask(mask)
    THEN Err("InvalidMask", "Máscara de sub-rede inválida")
    ELSE LET parts == split(mask, ".")
         IN  Ok(join([i \in 1..Len(parts) |->
                        toString(minusFrom255(parseInt(parts[i], 10)), 10)],
                     "."))

(***************************************************************************)
(* The operators & and | on the 32-bit integers ToInt32 gives: NaN and      *)
(* undefined (a missing element) become 0, negative numbers are two's       *)
(* complement.                                                              *)
(***************************************************************************)
RECURSIVE andNat(_, _)
andNat(a, b) ==
    IF a = 0 \/ b = 0 THEN 0
    ELSE 2 * andNat(a \div 2, b \div 2) + (a % 2) * (b % 2)

RECURSIVE orNat(_, _)
orNat(a, b) ==
    IF a = 0 THEN b
    ELSE IF b = 0 THEN a
    ELSE 2 * orNat(a \div 2, b \div 2) + Max(a % 2, b % 2)

ToInt32(x) == IF x.nan THEN 0 ELSE x.val

\* ~v for a 32-bit integer.
bitNot(v) == 0 - v - 1

bitAnd(a, b) ==
    IF a >= 0 /\ b >= 0 THEN andNat(a, b)
    ELSE IF a >= 0 THEN a - andNat(a, bitNot(b))
    ELSE IF b >= 0 THEN b - andNat(b, bitNot(a))
    ELSE bitNot(orNat(bitNot(a), bitNot(b)))

bitOr(a, b) ==
    IF a >= 0 /\ b >= 0 THEN orNat(a, b)
    ELSE IF a >= 0 THEN bitNot(bitNot(b) - andNat(bitNot(b), a))
    ELSE IF b >= 0 THEN bitNot(bitNot(a) - andNat(bitNot(a), b))
    ELSE bitNot(andNat(bitNot(a), bitNot(b)))

\* octets[index] of an array: undefined past its end, which ToInt32 makes 0.
elementOrUndefined(octets, index) ==
    IF index <= Len(octets) THEN octets[index] ELSE NaN

\* ip.split('.').map(Number)
octetsOf(ip) == LET parts == split(ip, ".") IN [i \in 1..Len(parts) |-> Number(parts[i])]

\* bitwiseAnd returning its first operand.
bitwiseAnd_FirstOperand(ip1, ip2) == ip1

\* bitwiseAnd with the operator | in place of &.
bitwiseAnd_OrOperator(ip1, ip2) ==
    LET octets1 == octetsOf(ip1)
        octets2 == octetsOf(ip2)
    IN  join([i \in 1..Len(octets1) |->
                toString(Num(bitOr(ToInt32(octets1[i]),
                                   ToInt32(elementOrUndefined(octets2, i)))), 10)],
             ".")

bitwiseAnd(ip1, ip2) ==
    LET octets1 == octetsOf(ip1)
        octets2 == octetsOf(ip2)
    IN  join([i \in 1..Len(octets1) |->
                toString(Num(bitAnd(ToInt32(octets1[i]),
                                    ToInt32(elementOrUndefined(octets2, i)))), 10)],
             ".")

\* bitwiseOr validating its first operand only.
bitwiseOr_FirstOperandOnly(ip1, ip2) ==
    IF ~validateIP(ip1)
    THEN Err("InvalidAddress", "Um ou mais endereços IP são inválidos")
    ELSE LET octets1 == octetsOf(ip1)
             octets2 == octetsOf(ip2)
         IN  Ok(join([i \in 1..Len(octets1) |->
                        toString(Num(bitOr(ToInt32(octets1[i]),
                                           ToInt32(elementOrUndefined(octets2, i)))), 10)],
                     "."))

bitwiseOr(ip1, ip2) ==
    IF ~validateIP(ip1) \/ ~validateIP(ip2)
    THEN Err("InvalidAddress", "Um ou mais endereços IP são inválidos")
    ELSE LET octets1 == octetsOf(ip1)
             octets2 == octetsOf(ip2)
         IN  Ok(join([i \in 1..Len(octets1) |->
                        toString(Num(bitOr(ToInt32(octets1[i]),
                                           ToInt32(elementOrUndefined(octets2, i)))), 10)],
                     "."))

(***************************************************************************)
(* incrementIp and decrementIp: the for loop runs from the last octet to    *)
(* the first; a throw inside the try block is caught and rethrown with the  *)
(* function's prefix.                                                       *)
(***************************************************************************)
\* octets.join('.') for an array of integers.
joinOctets(octets) == join([i \in 1..Len(octets) |-> toString(Num(octets[i]), 10)], ".")

\* ip.split('.').map(Number) for a validated ip: the integers.
validOctets(ip) == LET o == octetsOf(ip) IN [i \in 1..Len(o) |-> o[i].val]

\* The loop of incrementIp from index i (0-based) down.
RECURSIVE incrementLoop(_, _)
incrementLoop(octets, i) ==
    IF octets[i + 1] < 255
    THEN Ok(joinOctets([octets EXCEPT ![i + 1] = @ + 1]))
    ELSE IF i = 0
    THEN Err("AddressSpaceExhausted",
             "Estouro: endereço IP máximo atingido (255.255.255.255)")
    ELSE incrementLoop([octets EXCEPT ![i + 1] = 0], i - 1)

\* incrementIp with its loop started at the first octet.
incrementIp_FromFirstOctet(ip) ==
    IF ~validateIP(ip) THEN Err("InvalidAddress", "Endereço IP inválido")
    ELSE Rethrow("Falha ao incrementar IP: ", incrementLoop(validOctets(ip), 0))

incrementIp(ip) ==
    IF ~validateIP(ip) THEN Err("InvalidAddress", "Endereço IP inválido")
    ELSE Rethrow("Falha ao incrementar IP: ", incrementLoop(validOctets(ip), 3))

\* The loop of decrementIp from index i (0-based) down.
RECURSIVE decrementLoop(_, _)
decrementLoop(octets, i) ==
    IF i < 0 THEN Ok(joinOctets(octets))
    ELSE IF octets[i + 1] > 0
    THEN Ok(joinOctets([octets EXCEPT ![i + 1] = @ - 1]))
    ELSE decrementLoop([octets EXCEPT ![i + 1] = 255], i - 1)

\* decrementIp with its loop started at the third octet.
decrementIp_FromThirdOctet(ip) ==
    IF ~validateIP(ip) THEN Err("InvalidAddress", "Endereço IP inválido")
    ELSE LET octets == validOctets(ip)
         IN  IF \A i \in 1..Len(octets) : octets[i] = 0
             THEN Rethrow("Falha ao decrementar IP: ",
                          Err("AddressSpaceExhausted",
                              "Estouro: endereço IP mínimo atingido (0.0.0.0)"))
             ELSE Rethrow("Falha ao decrementar IP: ", decrementLoop(octets, 2))

\* decrementIp without the test for 0.0.0.0.
decrementIp_NoMinimumTest(ip) ==
    IF ~validateIP(ip) THEN Err("InvalidAddress", "Endereço IP inválido")
    ELSE Rethrow("Falha ao decrementar IP: ", decrementLoop(validOctets(ip), 3))

decrementIp(ip) ==
    IF ~validateIP(ip) THEN Err("InvalidAddress", "Endereço IP inválido")
    ELSE LET octets == validOctets(ip)
         IN  IF \A i \in 1..Len(octets) : octets[i] = 0
             THEN Rethrow("Falha ao decrementar IP: ",
                          Err("AddressSpaceExhausted",
                              "Estouro: endereço IP mínimo atingido (0.0.0.0)"))
             ELSE Rethrow("Falha ao decrementar IP: ", decrementLoop(octets, 3))

(***************************************************************************)
(* Host counts.  Math.pow(2, 32 - cidr) reaches 2^32, past the integers of  *)
(* the model checker, so a host count is the pair [hi, lo] that stands for  *)
(* hi * 2^16 + lo with lo in 0..2^16-1 (hi is negative for a negative       *)
(* number); a JS number represents every such value exactly.                *)
(***************************************************************************)
wide(hi, lo) == [hi |-> hi, lo |-> lo]

\* Math.pow(2, e) for e in 0..32.
mathPow2(e) == IF e >= 16 THEN wide(Pow2(e - 16), 0) ELSE wide(0, Pow2(e))

\* w - k for a small natural k.
wideMinus(w, k) ==
    IF w.lo - k >= 0 THEN wide(w.hi, w.lo - k)
    ELSE wide(w.hi - 1, w.lo - k + Pow2(16))

\* Math.max(0, w)
mathMax0(w) == IF w.hi < 0 THEN wide(0, 0) ELSE w

(***************************************************************************)
(* calculateSubnet.                                                         *)
(***************************************************************************)
\* cidrConversion leaving the '/n' form as it is.
cidrConversion_NotConverted(maskOrCidr) == Ok(maskOrCidr)

\* Lines 301-313: the mask in dotted form, or the rethrown CIDR failure.
cidrConversion(maskOrCidr) ==
    IF startsWith(maskOrCidr, "/")
    THEN LET cidr == parseInt(Tail(maskOrCidr), 10)
         IN  Rethrow("Falha ao converter CIDR para máscara: ",
                     IF isNaN(cidr) \/ cidr.val < 0 \/ cidr.val > 32
                     THEN Err("InvalidCidr",
                              "Valor CIDR inválido. Deve estar entre 0 e 32")
                     ELSE cidrToMask(cidr))
    ELSE Ok(maskOrCidr)

\* hostRange with the special case starting one prefix length early.
hostRange_From30(cidr, networkAddress, broadcastAddress, incremented, decremented) ==
    IF cidr >= 30
    THEN [firstHost |-> networkAddress, lastHost |-> broadcastAddress]
    ELSE [firstHost |-> incremented, lastHost |-> decremented]

\* hostRange without the special case.
hostRange_NoSpecialCase(cidr, networkAddress, broadcastAddress, incremented, decremented) ==
    [firstHost |-> incremented, lastHost |-> decremented]

\* Lines 345-350: the hosts after the /31 and /32 adjustment.
hostRange(cidr, networkAddress, broadcastAddress, incremented, decremented) ==
    IF cidr >= 31
    THEN [firstHost |-> networkAddress, lastHost |-> broadcastAddress]
    ELSE [firstHost |-> incremented, lastHost |-> decremented]

\* usableHostCount without the adjustment of lines 356-359.
usableHostCount_NoAdjustment(cidr, totalHosts) == mathMax0(wideMinus(totalHosts, 2))

\* Lines 352-359: the usable host count.
usableHostCount(cidr, totalHosts) ==
    IF cidr >= 31 THEN totalHosts ELSE mathMax0(wideMinus(totalHosts, 2))

\* Lines 329-376, the try block.  Each value the block computes is handed on
\* as an argument, so that it is written once: subnetRecord is given all of
\* them, and the first statement that threw decides the outcome.
subnetRecord(mask, binaryIP, binaryMask, networkAddress, wildcard, broadcastAddress, incremented, decremented, cidr) ==
    LET hosts      == hostRange(cidr.val, networkAddress, broadcastAddress.val,
                                incremented.val, decremented.val)
        totalHosts == mathPow2(32 - cidr.val)
    IN  IF ~binaryIP.ok THEN binaryIP
        ELSE IF ~binaryMask.ok THEN binaryMask
        ELSE IF ~wildcard.ok THEN wildcard
        ELSE IF ~broadcastAddress.ok THEN broadcastAddress
        ELSE IF ~incremented.ok THEN incremented
        ELSE IF ~decremented.ok THEN decremented
        ELSE IF ~cidr.ok THEN cidr
        ELSE Ok([networkAddress   |-> networkAddress,
                 broadcastAddress |-> broadcastAddress.val,
                 firstHost        |-> hosts.firstHost,
                 lastHost         |-> hosts.lastHost,
                 totalHosts       |-> totalHosts,
                 usableHosts      |-> usableHostCount(cidr.val, totalHosts),
                 subnetMask       |-> mask,
                 wildcardMask     |-> wildcard.val,
                 binaryIP         |-> binaryIP.val,
                 binaryMask       |-> binaryMask.val])

\* Lines 331-332 and 342-346: the binary strings, the two hosts and the CIDR.
subnetInfoOfRange(ip, mask, networkAddress, wildcard, broadcastAddress) ==
    subnetRecord(mask, ipToBinary(ip), ipToBinary(mask), networkAddress, wildcard,
                 broadcastAddress, incrementIp(networkAddress),
                 decrementIp(broadcastAddress.val), maskToCidr(mask))

\* Line 339: the broadcast address from the network address and the wildcard
\* mask.
subnetInfoOfNetwork(ip, mask, networkAddress, wildcard) ==
    subnetInfoOfRange(ip, mask, networkAddress, wildcard,
                      bitwiseOr(networkAddress, wildcard.val))

\* Lines 329-376: the try block from lines 335 and 338 on, its failures
\* rethrown with the prefix.
subnetInfo(ip, mask) ==
    Rethrow("Falha ao calcular informações da sub-rede: ",
            subnetInfoOfNetwork(ip, mask, bitwiseAnd(ip, mask), getWildcardMask(mask)))

\* Lines 315-377: what follows the CIDR conversion.
calculateWithMask(ip, mask) ==
    LET networkAddress   == bitwiseAnd(ip, mask)
        wildcardMask     == getWildcardMask(mask)
        broadcastAddress == bitwiseOr(networkAddress, wildcardMask.val)
    IN  IF ~wildcardMask.ok THEN wildcardMask
        ELSE IF ~broadcastAddress.ok THEN broadcastAddress
        ELSE IF ~validateSubnetMask(mask)
        THEN Err("InvalidMask", "Máscara de sub-rede inválida")
        ELSE subnetInfo(ip, mask)

calculateSubnet(ip, maskOrCidr) ==
    IF ~validateIP(ip) THEN Err("InvalidAddress", "Endereço IP inválido")
    ELSE LET mask == cidrConversion(maskOrCidr)
         IN  IF ~mask.ok THEN mask ELSE calculateWithMask(ip, mask.val)

(***************************************************************************)
(* The inputs.  Addresses are four octets; the strings are built from       *)
(* numerals, so that the well-formed and the malformed shapes the source    *)
(* tells apart all occur.                                                   *)
(***************************************************************************)
\* Addresses within Radius of each base address are inputs.
Radius == 1

\* The '/n' inputs run from -MaxOutside to 32 + MaxOutside.
MaxOutside == 2

\* Octet groups are also written zero-padded to each width up to MaxWidth.
MaxWidth == 3

\* The address k after the address q (k may be negative), octet by octet.
RECURSIVE quadPlus(_, _)
quadPlus(q, k) ==
    IF k = 0 THEN q
    ELSE IF k > 0
    THEN quadPlus(IF q[4] < 255 THEN <<q[1], q[2], q[3], q[4] + 1>>
                  ELSE IF q[3] < 255 THEN <<q[1], q[2], q[3] + 1, 0>>
                  ELSE IF q[2] < 255 THEN <<q[1], q[2] + 1, 0, 0>>
                  ELSE <<q[1] + 1, 0, 0, 0>>, k - 1)
    ELSE quadPlus(IF q[4] > 0 THEN <<q[1], q[2], q[3], q[4] - 1>>
                  ELSE IF q[3] > 0 THEN <<q[1], q[2], q[3] - 1, 255>>
                  ELSE IF q[2] > 0 THEN <<q[1], q[2] - 1, 255, 255>>
                  ELSE <<q[1] - 1, 255, 255, 255>>, k + 1)

inAddressSpace(q) == \A i \in 1..4 : q[i] \in 0..255

\* The numeral of a natural number, zero-padded to a width.
numeral(v, width) == padStart(natToString(v, 10), width, "0")

\* The dotted string of four octets, each zero-padded to a width.
dottedString(q, width) == join([i \in 1..4 |-> numeral(q[i], width)], ".")

BaseAddresses ==
    { <<0, 0, 0, 0>>, <<255, 255, 255, 255>>, <<192, 168, 1, 0>>,
      <<10, 0, 0, 255>>, <<172, 16, 255, 255>>, <<128, 0, 0, 0>>,
      <<170, 85, 204, 51>>, <<85, 170, 51, 204>> }

InputAddresses ==
    {q \in {quadPlus(b, k) : b \in BaseAddresses, k \in (0 - Radius)..Radius} :
        inAddressSpace(q)}

PaddedAddresses == { <<192, 168, 1, 1>>, <<10, 0, 0, 1>>, <<0, 0, 0, 0>> }

MalformedIps ==
    { <<>>,
      <<"a", "b", "c">>,
      <<"1", ".", "2", ".", "3">>,
      <<"1", ".", "2", ".", "3", ".">>,
      <<".", "1", ".", "2", ".", "3">>,
      <<"1", ".", ".", "2", ".", "3">>,
      <<"1", ".", "2", ".", "3", ".", "4", ".", "5">>,
      <<"2", "5", "6", ".", "1", ".", "1", ".", "1">>,
      <<"1", ".", "1", ".", "1", ".", "2", "5", "6">>,
      <<"1", ".", "9", "9", "9", ".", "1", ".", "1">>,
      <<"1", "2", "3", "4", ".", "1", ".", "1", ".", "1">>,
      <<"1", ".", "2", ".", "3", ".", "a">>,
      <<"1", ".", "2", "a", ".", "3", ".", "4">>,
      <<"-", "1", ".", "2", ".", "3", ".", "4">>,
      <<"1", ".", "2", ".", "3", ".", "+", "4">>,
      <<" ", "1", ".", "2", ".", "3", ".", "4">>,
      <<"1", ".", "2", ".", "3", ".", "4", " ">>,
      <<"1", ".", "2", " ", ".", "3", ".", "4">>,
      <<"1", "/", "2", ".", "3", ".", "4">> }

IpInputs ==
    {dottedString(q, 1) : q \in InputAddresses}
    \cup {dottedString(q, w) : q \in PaddedAddresses, w \in 2..MaxWidth}
    \cup MalformedIps

\* The octet with its first k bits set, k in 0..8.
LeadingBitsOctet == <<0, 128, 192, 224, 240, 248, 252, 254, 255>>

\* The four octets of the mask of prefix length L.
prefixMask(L) == [i \in 1..4 |-> LeadingBitsOctet[Min(8, Max(0, L - 8 * (i - 1))) + 1]]

\* The numeral of an integer, with its sign.
signedNumeral(v) ==
    IF v < 0 THEN <<"-">> \o natToString(0 - v, 10) ELSE natToString(v, 10)

\* '/n'
slash(rest) == <<"/">> \o rest

PaddedMasks == { prefixMask(24), prefixMask(16), prefixMask(9), prefixMask(0) }

MalformedCidrs ==
    { slash(<<>>),
      slash(<<"a", "b", "c">>),
      slash(<<"2", "4", "a", "b", "c">>),
      slash(<<"2", "4", ".", "5">>),
      slash(<<"3", "3", "a">>),
      slash(<<"a", "2", "4">>),
      slash(<<" ", "2", "4">>),
      slash(<<"+", "2", "4">>),
      slash(<<"0", "2", "4">>),
      slash(<<"-", "0">>),
      slash(<<"2", " ", "4">>),
      slash(<<"/", "2", "4">>) }

MalformedMasks ==
    { <<>>,
      <<"i", "n", "v", "a", "l", "i", "d">>,
      <<"2", "4">>,
      <<"2", "5", "5", ".", "2", "5", "5", ".", "2", "5", "5">>,
      <<"2", "5", "6", ".", "2", "5", "5", ".", "2", "5", "5", ".", "0">>,
      <<"2", "5", "5", ".", "2", "5", "5", ".", "2", "5", "5", ".", "1">>,
      <<"2", "5", "5", ".", "0", ".", "2", "5", "5", ".", "0">>,
      <<"0", ".", "2", "5", "5", ".", "0", ".", "0">>,
      <<"2", "5", "5", ".", "2", "5", "5", ".", "0", ".", "2", "5", "5">>,
      <<"2", "5", "5", ".", "2", "5", "3", ".", "0", ".", "0">>,
      <<"1", "2", "7", ".", "0", ".", "0", ".", "0">>,
      <<"0", ".", "0", ".", "0", ".", "1">>,
      <<"2", "5", "5", ".", "2", "5", "5", ".", "2", "5", "5", ".", "0", ".", "0">>,
      <<" ", "2", "5", "5", ".", "0", ".", "0", ".", "0">>,
      <<"2", "5", "5", ".", "0", ".", "0", ".", "0", " ">> }

MaskInputs ==
    {dottedString(prefixMask(L), 1) : L \in 0..32}
    \cup {dottedString(q, w) : q \in PaddedMasks, w \in 2..MaxWidth}
    \cup {slash(signedNumeral(v)) : v \in (0 - MaxOutside)..(32 + MaxOutside)}
    \cup MalformedCidrs
    \cup MalformedMasks

\* The 8 binary digits of an octet, most significant first.
bits8(v) == [k \in 1..8 |-> IF (v \div 2 ^ (8 - k)) % 2 = 1 THEN "1" ELSE "0"]

\* Four 8-digit groups, group i followed by the separator seps[i].
binaryString(q, seps) ==
    bits8(q[1]) \o seps[1] \o bits8(q[2]) \o seps[2]
    \o bits8(q[3]) \o seps[3] \o bits8(q[4]) \o seps[4]

BinaryAddresses ==
    { <<192, 168, 1, 1>>, <<10, 0, 0, 1>>, <<0, 0, 0, 0>>,
      <<255, 255, 255, 255>>, <<127, 255, 0, 128>> }

\* Each dot present or missing, with and without a trailing dot.  A string of
\* 32 digits without any dot is taken only with a leading 0, so that its value
\* stays below 2^31.
Separators ==
    {<<a, b, c, d>> : a \in {<<".">>, <<>>}, b \in {<<".">>, <<>>},
                      c \in {<<".">>, <<>>}, d \in {<<>>, <<".">>}}

MalformedBinaries ==
    { <<"1", "1", "0", "0", "0", "0", "0", "0", ".", "1", "0", "1", "0", "1", "0", "0", "0", ".", "0", "0", "0", "0", "0", "0", "0", "1">>,
      <<"1", "1", "0", "0", "0", "0", "0", "0", ".", "1", "0", "1", "0", "1", "0", "0", "0", ".", "0", "0", "0", "0", "0", "0", "0", "1", ".", "0", "0", "0", "0", "0", "0", "0", "1", ".", "0", "0", "0", "0", "0", "0", "0", "1">>,
      <<"1", "1", "0", "0", "0", "0", "0", ".", "1", "0", "1", "0", "1", "0", "0", "0", ".", "0", "0", "0", "0", "0", "0", "0", "1", ".", "0", "0", "0", "0", "0", "0", "0", "1">>,
      <<"1", "1", "0", "0", "0", "0", "0", "0", "0", ".", "1", "0", "1", "0", "1", "0", "0", "0", ".", "0", "0", "0", "0", "0", "0", "0", "1", ".", "0", "0", "0", "0", "0", "0", "0", "1">>,
      <<"1", "1", "0", "0", "0", "0", "0", "0", ".", "1", "0", "1", "0", "1", "0", "0", "0", ".", "0", "0", "0", "0", "0", "0", "0", "1", ".", "0", "0", "0", "0", "0", "0", "0">>,
      <<"1", "1", "0", "0", "0", "0", "0", "0", ".", "1", "0", "1", "0", "1", "0", "0", "0", ".", "0", "0", "0", "0", "0", "0", "0", "1", ".", "0", "0", "0", "0", "0", "0", "0", "2">>,
      <<"1", "1", "0", "0", "0", "0", "0", "0", ".", "1", "0", "1", "0", "1", "0", "0", "a", ".", "0", "0", "0", "0", "0", "0", "0", "1", ".", "0", "0", "0", "0", "0", "0", "0", "1">>,
      <<".", "1", "1", "0", "0", "0", "0", "0", "0", ".", "1", "0", "1", "0", "1", "0", "0", "0", ".", "0", "0", "0", "0", "0", "0", "0", "1", ".", "0", "0", "0", "0", "0", "0", "0", "1">>,
      <<"1", "1", "0", "0", "0", "0", "0", "0", ".", ".", "1", "0", "1", "0", "1", "0", "0", "0", ".", "0", "0", "0", "0", "0", "0", "0", "1", ".", "0", "0", "0", "0", "0", "0", "0", "1">>,
      <<"1", "1", "0", "0", "0", "0", "0", "0", ".", "1", "0", "1", "0", "1", "0", "0", "0", ".", "0", "0", "0", "0", "0", "0", "0", "1", ".", "0", "0", "0", "0", "0", "0", "0", "1", ".", ".">>,
      <<" ", "1", "1", "0", "0", "0", "0", "0", "0", ".", "1", "0", "1", "0", "1", "0", "0", "0", ".", "0", "0", "0", "0", "0", "0", "0", "1", ".", "0", "0", "0", "0", "0", "0", "0", "1">>,
      <<"1", "1", "0", "0", "0", "0", "0", "0", ".", "1", "0", "1", "0", "1", "0", "0", "0", ".", "0", "0", "0", "0", "0", "0", "0", "1", ".", "0", "0", "0", "0", "0", "0", "0", "1", " ">>,
      <<"1", "1", "0", "0", "0", "0", "0", "0", " ", "1", "0", "1", "0", "1", "0", "0", "0", " ", "0", "0", "0", "0", "0", "0", "0", "1", " ", "0", "0", "0", "0", "0", "0", "0", "1">>,
      <<"1", "1", "0", "0", "0", "0", "0", "0", ",", "1", "0", "1", "0", "1", "0", "0", "0", ",", "0", "0", "0", "0", "0", "0", "0", "1", ",", "0", "0", "0", "0", "0", "0", "0", "1">>,
      <<"0", "b", "1", "1", "0", "0", "0", "0", "0", "0", ".", "1", "0", "1", "0", "1", "0", "0", "0", ".", "0", "0", "0", "0", "0", "0", "0", "1", ".", "0", "0", "0", "0", "0", "0", "0", "1">>,
      <<"b", "i", "n", "a", "r", "y">> }

BinaryInputs ==
    ({binaryString(q, seps) : q \in BinaryAddresses, seps \in Separators}
     \ {binaryString(q, <<<<>>, <<>>, <<>>, d>>) :
            q \in {a \in BinaryAddresses : a[1] >= 128}, d \in {<<>>, <<".">>}})
    \cup MalformedBinaries

StrInputs == IpInputs \cup MaskInputs \cup BinaryInputs

NumInputs == {NaN} \cup {Num(v) : v \in (0 - MaxOutside)..(32 + MaxOutside)}

(***************************************************************************)
(* The state machine: a caller holds the arguments, applies a function of   *)
(* the library, and may feed what it returned to the next function.  call   *)
(* is the sequence of functions applied so far.                             *)
(***************************************************************************)
NotCalled == [ok |-> FALSE, val |-> <<>>, kind |-> "none", msg |-> <<>>]

\* The value null of JS.
null == [null |-> TRUE]

\* The application is not running: the hook and the form hold their initial
\* states (lines 16 and 52-60) and nothing is stored.
Unmounted ==
    /\ history = <<>>
    /\ storage = null
    /\ results = null
    /\ isCalculating = FALSE
    /\ isTouched = [ip |-> FALSE, mask |-> FALSE]
    /\ showHistory = FALSE

\* A caller of calculateSubnet.
Init ==
    /\ ipAddress \in IpInputs
    /\ subnetMask \in MaskInputs
    /\ str = <<>>
    /\ num = NaN
    /\ ipA = <<>>
    /\ ipB = <<>>
    /\ call = <<>>
    /\ ret = NotCalled
    /\ prev = NotCalled
    /\ Unmounted

CalculateSubnet ==
    /\ call = <<>>
    /\ call' = <<"calculateSubnet">>
    /\ ret' = calculateSubnet(ipAddress, subnetMask)
    /\ UNCHANGED idle

Next == CalculateSubnet

Spec == Init /\ [][Next]_vars

\* A caller of the one-string functions.
InitStr ==
    /\ str \in StrInputs
    /\ ipAddress = <<>>
    /\ subnetMask = <<>>
    /\ num = NaN
    /\ ipA = <<>>
    /\ ipB = <<>>
    /\ call = <<>>
    /\ ret = NotCalled
    /\ prev = NotCalled
    /\ Unmounted

ValidateIP ==
    /\ call = <<>>
    /\ call' = <<"validateIP">>
    /\ ret' = Ok(validateIP(str))
    /\ UNCHANGED idle

ValidateSubnetMask ==
    /\ call = <<>>
    /\ call' = <<"validateSubnetMask">>
    /\ ret' = Ok(validateSubnetMask(str))
    /\ UNCHANGED idle

IpToBinary ==
    /\ call = <<>>
    /\ call' = <<"ipToBinary">>
    /\ ret' = ipToBinary(str)
    /\ UNCHANGED idle

\* binaryToIp applied to what ipToBinary returned.
BinaryToIpOfResult ==
    /\ call = <<"ipToBinary">>
    /\ ret.ok
    /\ call' = Append(call, "binaryToIp")
    /\ ret' = binaryToIp(ret.val)
    /\ UNCHANGED idle

BinaryToIp ==
    /\ call = <<>>
    /\ call' = <<"binaryToIp">>
    /\ ret' = binaryToIp(str)
    /\ UNCHANGED idle

GetWildcardMask ==
    /\ call = <<>>
    /\ call' = <<"getWildcardMask">>
    /\ ret' = getWildcardMask(str)
    /\ UNCHANGED idle

IncrementIp ==
    /\ call = <<>>
    /\ call' = <<"incrementIp">>
    /\ ret' = incrementIp(str)
    /\ UNCHANGED idle

DecrementIp ==
    /\ call = <<>>
    /\ call' = <<"decrementIp">>
    /\ ret' = decrementIp(str)
    /\ UNCHANGED idle

\* decrementIp applied to what incrementIp returned.
DecrementIpOfResult ==
    /\ call = <<"incrementIp">>
    /\ ret.ok
    /\ call' = Append(call, "decrementIp")
    /\ ret' = decrementIp(ret.val)
    /\ prev' = ret
    /\ UNCHANGED <<args, hook, form>>

\* incrementIp applied to what decrementIp returned.
IncrementIpOfResult ==
    /\ call = <<"decrementIp">>
    /\ ret.ok
    /\ call' = Append(call, "incrementIp")
    /\ ret' = incrementIp(ret.val)
    /\ prev' = ret
    /\ UNCHANGED <<args, hook, form>>

MaskToCidr ==
    /\ call = <<>>
    /\ call' = <<"maskToCidr">>
    /\ ret' = maskToCidr(str)
    /\ UNCHANGED idle

\* cidrToMask applied to what maskToCidr returned.
CidrToMaskOfResult ==
    /\ call = <<"maskToCidr">>
    /\ ret.ok
    /\ call' = Append(call, "cidrToMask")
    /\ ret' = cidrToMask(Num(ret.val))
    /\ UNCHANGED idle

NextStr ==
    \/ ValidateIP
    \/ ValidateSubnetMask
    \/ IpToBinary
    \/ BinaryToIpOfResult
    \/ BinaryToIp
    \/ MaskToCidr
    \/ GetWildcardMask
    \/ IncrementIp
    \/ DecrementIp
    \/ DecrementIpOfResult
    \/ IncrementIpOfResult
    \/ CidrToMaskOfResult

SpecStr == InitStr /\ [][NextStr]_vars

\* A caller of cidrToMask.
InitNum ==
    /\ num \in NumInputs
    /\ ipAddress = <<>>
    /\ subnetMask = <<>>
    /\ str = <<>>
    /\ ipA = <<>>
    /\ ipB = <<>>
    /\ call = <<>>
    /\ ret = NotCalled
    /\ prev = NotCalled
    /\ Unmounted

CidrToMask ==
    /\ call = <<>>
    /\ call' = <<"cidrToMask">>
    /\ ret' = cidrToMask(num)
    /\ UNCHANGED idle

\* validateSubnetMask applied to what cidrToMask returned.
ValidateSubnetMaskOfResult ==
    /\ call = <<"cidrToMask">>
    /\ ret.ok
    /\ call' = Append(call, "validateSubnetMask")
    /\ ret' = Ok(validateSubnetMask(ret.val))
    /\ UNCHANGED idle

\* maskToCidr applied to what cidrToMask returned.
MaskToCidrOfResult ==
    /\ call = <<"cidrToMask">>
    /\ ret.ok
    /\ call' = Append(call, "maskToCidr")
    /\ ret' = maskToCidr(ret.val)
    /\ UNCHANGED idle

NextNum ==
    \/ CidrToMask
    \/ ValidateSubnetMaskOfResult
    \/ MaskToCidrOfResult

SpecNum == InitNum /\ [][NextNum]_vars

\* A caller of a function of two addresses.
InitPair ==
    /\ ipA \in IpInputs
    /\ ipB \in IpInputs
    /\ ipAddress = <<>>
    /\ subnetMask = <<>>
    /\ str = <<>>
    /\ num = NaN
    /\ call = <<>>
    /\ ret = NotCalled
    /\ prev = NotCalled
    /\ Unmounted

BitwiseOr ==
    /\ call = <<>>
    /\ call' = <<"bitwiseOr">>
    /\ ret' = bitwiseOr(ipA, ipB)
    /\ UNCHANGED idle

\* bitwiseAnd has no throw statement: it returns a string for every pair.
BitwiseAnd ==
    /\ call = <<>>
    /\ call' = <<"bitwiseAnd">>
    /\ ret' = Ok(bitwiseAnd(ipA, ipB))
    /\ UNCHANGED idle

NextPair ==
    \/ BitwiseOr
    \/ BitwiseAnd

SpecPair == InitPair /\ [][NextPair]_vars

(***************************************************************************)
(* useCalculationHistory.  An item is a record of the pair and the result;  *)
(* its id (crypto.randomUUID()) and its timestamp (Date.now()) are read by   *)
(* no code of the hook or of the form and are left out.  The value under    *)
(* STORAGE_KEY is null or [text |-> t], t the JSON text as a sequence of     *)
(* tokens: punctuation, property names, strings and numbers.                *)
(***************************************************************************)
HISTORY_LIMIT == 5

\* array.slice(0, n)
slice0(s, n) == SubSeq(s, 1, Min(n, Len(s)))

historyItem(ip, mask, result) == [ipAddress |-> ip, subnetMask |-> mask, result |-> result]

punct(c) == [kind |-> "punct", text |-> <<c>>, number |-> null]

key(name) == [kind |-> "key", text |-> <<name>>, number |-> null]

stringToken(s) == [kind |-> "string", text |-> s, number |-> null]

numberToken(n) == [kind |-> "number", text |-> <<>>, number |-> n]

\* The properties of a SubnetInfo in the order of the object literal (part_001
\* lines 362-373); totalHosts and usableHosts are numbers, the others strings.
resultKeys ==
    << "networkAddress", "broadcastAddress", "firstHost", "lastHost", "totalHosts",
       "usableHosts", "subnetMask", "wildcardMask", "binaryIP", "binaryMask" >>

valueToken(name, v) ==
    IF name \in {"totalHosts", "usableHosts"} THEN numberToken(v) ELSE stringToken(v)

\* The properties of a result from the i-th on, a comma between two of them.
RECURSIVE stringifyProperties(_, _)
stringifyProperties(result, i) ==
    IF i > Len(resultKeys) THEN <<>>
    ELSE <<key(resultKeys[i]), valueToken(resultKeys[i], result[resultKeys[i]])>>
         \o (IF i < Len(resultKeys) THEN <<punct(",")>> ELSE <<>>)
         \o stringifyProperties(result, i + 1)

stringifyResult(result) == <<punct("{")>> \o stringifyProperties(result, 1) \o <<punct("}")>>

stringifyItem(item) ==
    << punct("{"),
       key("ipAddress"), stringToken(item.ipAddress), punct(","),
       key("subnetMask"), stringToken(item.subnetMask), punct(","),
       key("result") >>
    \o stringifyResult(item.result)
    \o <<punct("}")>>

\* The items from position i on, a comma between two of them.
RECURSIVE stringifyItems(_, _)
stringifyItems(items, i) ==
    IF i > Len(items) THEN <<>>
    ELSE stringifyItem(items[i])
         \o (IF i < Len(items) THEN <<punct(",")>> ELSE <<>>)
         \o stringifyItems(items, i + 1)

\* JSON.stringify(history)
stringify(items) == <<punct("[")>> \o stringifyItems(items, 1) \o <<punct("]")>>

\* The token at position i, an empty token past the end.
tokenAt(text, i) == IF i \in 1..Len(text) THEN text[i] ELSE punct("")

\* The k-th property of a result object that starts at position i: its value
\* token is at i + 3k - 1, a comma or the closing brace follows.
propertyAt(text, i, k) ==
    /\ tokenAt(text, i + 3 * k - 2) = key(resultKeys[k])
    /\ tokenAt(text, i + 3 * k - 1).kind
       = (IF resultKeys[k] \in {"totalHosts", "usableHosts"} THEN "number" ELSE "string")
    /\ tokenAt(text, i + 3 * k)
       = (IF k < Len(resultKeys) THEN punct(",") ELSE punct("}"))

valueAt(text, i, k) ==
    LET token == tokenAt(text, i + 3 * k - 1)
    IN  IF token.kind = "number" THEN token.number ELSE token.text

\* A result object read from position i: the record and the position after it.
parseResult(text, i) ==
    IF tokenAt(text, i) = punct("{") /\ \A k \in 1..Len(resultKeys) : propertyAt(text, i, k)
    THEN Ok([result |-> [networkAddress   |-> valueAt(text, i, 1),
                         broadcastAddress |-> valueAt(text, i, 2),
                         firstHost        |-> valueAt(text, i, 3),
                         lastHost         |-> valueAt(text, i, 4),
                         totalHosts       |-> valueAt(text, i, 5),
                         usableHosts      |-> valueAt(text, i, 6),
                         subnetMask       |-> valueAt(text, i, 7),
                         wildcardMask     |-> valueAt(text, i, 8),
                         binaryIP         |-> valueAt(text, i, 9),
                         binaryMask       |-> valueAt(text, i, 10)],
             next |-> i + 3 * Len(resultKeys) + 1])
    ELSE Err("SyntaxError", "Unexpected token")

\* An item read from position i: the item and the position after it.
parseItem(text, i) ==
    IF /\ tokenAt(text, i) = punct("{")
       /\ tokenAt(text, i + 1) = key("ipAddress")
       /\ tokenAt(text, i + 2).kind = "string"
       /\ tokenAt(text, i + 3) = punct(",")
       /\ tokenAt(text, i + 4) = key("subnetMask")
       /\ tokenAt(text, i + 5).kind = "string"
       /\ tokenAt(text, i + 6) = punct(",")
       /\ tokenAt(text, i + 7) = key("result")
    THEN LET result == parseResult(text, i + 8)
         IN  IF result.ok /\ tokenAt(text, result.val.next) = punct("}")
             THEN Ok([item |-> historyItem(text[i + 2].text, text[i + 5].text,
                                           result.val.result),
                      next |-> result.val.next + 1])
             ELSE Err("SyntaxError", "Unexpected token")
    ELSE Err("SyntaxError", "Unexpected token")

\* The objects of an array read from position i, up to the closing bracket.
RECURSIVE parseItems(_, _)
parseItems(text, i) ==
    LET first == parseItem(text, i)
    IN  IF ~first.ok THEN first
        ELSE IF tokenAt(text, first.val.next) = punct("]") /\ first.val.next = Len(text)
        THEN Ok(<<first.val.item>>)
        ELSE IF tokenAt(text, first.val.next) = punct(",")
        THEN LET rest == parseItems(text, first.val.next + 1)
             IN  IF rest.ok THEN Ok(<<first.val.item>> \o rest.val) ELSE rest
        ELSE Err("SyntaxError", "Unexpected token")

\* JSON.parse(savedHistory)
parse(text) ==
    IF tokenAt(text, 1) # punct("[") THEN Err("SyntaxError", "Unexpected token")
    ELSE IF Len(text) = 2 /\ tokenAt(text, 2) = punct("]") THEN Ok(<<>>)
    ELSE parseItems(text, 2)

\* Lines 19-28, the load effect: the state after it, from the initial [].
loadEffect(stored) ==
    IF stored # null /\ stored.text # <<>>
    THEN LET parsed == parse(stored.text) IN IF parsed.ok THEN parsed.val ELSE <<>>
    ELSE <<>>

\* The save effect without the test of the length.
saveEffect_NoLengthTest(items, stored) == [text |-> stringify(items)]

\* Lines 31-39, the save effect: the stored value after it ran for a history.
saveEffect(items, stored) ==
    IF Len(items) > 0 THEN [text |-> stringify(items)] ELSE stored

\* The updater without the filter.
addedToHistory_NotFiltered(items, ip, mask, result) ==
    slice0(<<historyItem(ip, mask, result)>> \o items, HISTORY_LIMIT)

\* Lines 50-56: the updater of setHistory.
addedToHistory(items, ip, mask, result) ==
    LET newItem  == historyItem(ip, mask, result)
        filtered == SelectSeq(items, LAMBDA item :
                                ~(item.ipAddress = ip /\ item.subnetMask = mask))
    IN  slice0(<<newItem>> \o filtered, HISTORY_LIMIT)

(***************************************************************************)
(* The component that uses the hook: it adds, clears and is mounted again.  *)
(* Every action runs the effects that follow its render.  Here call is the  *)
(* last function applied, and ipA, ipB are the pair it was given.           *)
(***************************************************************************)
HistoryIps == {dottedString(q, 1) : q \in PaddedAddresses}

HistoryMasks == {slash(<<"2", "4">>), dottedString(prefixMask(24), 1)}

\* What the caller passes: a pair, and as the result what calculateSubnet
\* returned for it (CalculadoraSubrede.tsx lines 137-141).
HistoryInputs ==
    {[ipAddress |-> ip, subnetMask |-> mask, result |-> calculateSubnet(ip, mask).val] :
         ip \in HistoryIps, mask \in HistoryMasks}

AddToHistory ==
    /\ \E given \in HistoryInputs :
          LET added == addedToHistory(history, given.ipAddress, given.subnetMask,
                                      given.result)
          IN  /\ history' = added
              /\ storage' = saveEffect(added, storage)
              /\ ipA' = given.ipAddress
              /\ ipB' = given.subnetMask
    /\ call' = <<"addToHistory">>
    /\ UNCHANGED <<ipAddress, subnetMask, str, num, ret, prev, form>>

\* Lines 59-62, and the save effect that follows with the empty history.
ClearHistory ==
    /\ history' = <<>>
    /\ storage' = saveEffect(<<>>, null)
    /\ call' = <<"clearHistory">>
    /\ UNCHANGED <<args, ret, prev, form>>

\* The component is unmounted and mounted again: the state starts from [],
\* the load effect runs, then the save effect with what was loaded.
Remount ==
    /\ LET loaded == loadEffect(storage)
       IN  /\ history' = loaded
           /\ storage' = saveEffect(loaded, storage)
    /\ ipA' = <<>>
    /\ ipB' = <<>>
    /\ call' = <<"useCalculationHistory">>
    /\ UNCHANGED <<ipAddress, subnetMask, str, num, ret, prev, form>>

InitHistory ==
    /\ ipAddress = <<>>
    /\ subnetMask = <<>>
    /\ str = <<>>
    /\ num = NaN
    /\ ipA = <<>>
    /\ ipB = <<>>
    /\ call = <<>>
    /\ ret = NotCalled
    /\ prev = NotCalled
    /\ Unmounted

NextHistory ==
    \/ AddToHistory
    \/ ClearHistory
    \/ Remount

SpecHistory == InitHistory /\ [][NextHistory]_vars

(***************************************************************************)
(* The calculator form, CalculadoraSubrede.tsx.  Its state is ipAddress,    *)
(* subnetMask, results, isCalculating, isTouched and showHistory, with the  *)
(* history and the storage of the hook it uses.  An action is one event     *)
(* handler with the render and the effects that follow it.  Here call is    *)
(* the handler and the functions it called, ipA and ipB are the arguments   *)
(* calculateSubnet was given, and ret is what calculateSubnet returned.     *)
(***************************************************************************)
\* String.prototype.trim removes the white space at both ends.
RECURSIVE trimStart(_)
trimStart(s) ==
    IF s # <<>> /\ Head(s) \in WhiteSpace THEN trimStart(Tail(s)) ELSE s

RECURSIVE trimEnd(_)
trimEnd(s) ==
    IF s # <<>> /\ s[Len(s)] \in WhiteSpace THEN trimEnd(SubSeq(s, 1, Len(s) - 1)) ELSE s

trim(s) == trimEnd(trimStart(s))

\* Lines 79-80.
isValidIP(ip) == ip = <<>> \/ validateIP(trim(ip))

isValidMask(mask) == mask = <<>> \/ validateSubnetMask(trim(mask))

\* The effect that requires both inputs.
clearingEffect_BothRequired(ip, mask, shown) ==
    IF ip # <<>> /\ mask # <<>> THEN null ELSE shown

\* Lines 83-87, the body of the effect: the results after it ran for the
\* rendered inputs.
clearingEffect(ip, mask, shown) ==
    IF ip # <<>> \/ mask # <<>> THEN null ELSE shown

\* The results after the render that follows a handler: the effect runs when
\* one of its dependencies [ipAddress, subnetMask] changed.
afterRender(ip, mask, shown) ==
    IF ip # ipAddress \/ mask # subnetMask THEN clearingEffect(ip, mask, shown)
    ELSE shown

\* What is typed into the address field.
TypedIps ==
    { <<>>,
      dottedString(<<10, 0, 0, 255>>, 1),
      <<" ">> \o dottedString(<<10, 0, 0, 255>>, 1),
      dottedString(<<0, 0, 0, 0>>, 1),
      <<"a", "b", "c">> }

\* What is typed into the mask field.
TypedMasks ==
    { <<>>,
      <<" ">> \o slash(<<"3", "2">>) \o <<" ">>,
      slash(<<"3", "3">>) }

\* The cidr value of COMMON_SUBNETS that is selected.
ExampleMasks == {slash(<<"2", "4">>)}

\* calculateSubnet on the trimmed inputs the form can hold.
Calculations ==
    {[ipAddress |-> ip, subnetMask |-> mask, outcome |-> calculateSubnet(ip, mask)] :
         ip \in {trim(s) : s \in TypedIps},
         mask \in {trim(s) : s \in TypedMasks \cup ExampleMasks}}

calculationOf(ip, mask) ==
    (CHOOSE c \in Calculations : c.ipAddress = ip /\ c.subnetMask = mask).outcome

\* The state after the first render and its effects, with nothing stored.
InitForm ==
    /\ ipAddress = <<>>
    /\ subnetMask = slash(<<"2", "4">>)
    /\ results = clearingEffect(<<>>, slash(<<"2", "4">>), null)
    /\ isCalculating = FALSE
    /\ isTouched = [ip |-> FALSE, mask |-> FALSE]
    /\ showHistory = FALSE
    /\ storage = null
    /\ history = loadEffect(null)
    /\ str = <<>>
    /\ num = NaN
    /\ ipA = <<>>
    /\ ipB = <<>>
    /\ call = <<>>
    /\ ret = NotCalled
    /\ prev = NotCalled

\* What every handler but handleCalculate leaves.
noCalculation ==
    /\ ipA' = <<>>
    /\ ipB' = <<>>
    /\ ret' = NotCalled
    /\ UNCHANGED <<str, num, prev>>

\* Lines 301-304, onChange of the address field.
OnChangeIp ==
    /\ \E value \in TypedIps :
          /\ ipAddress' = value
          /\ results' = afterRender(value, subnetMask, results)
    /\ isTouched' = [isTouched EXCEPT !.ip = TRUE]
    /\ call' = <<"onChange">>
    /\ noCalculation
    /\ UNCHANGED <<subnetMask, isCalculating, showHistory, hook>>

\* Lines 346-349, onChange of the mask field.
OnChangeMask ==
    /\ \E value \in TypedMasks :
          /\ subnetMask' = value
          /\ results' = afterRender(ipAddress, value, results)
    /\ isTouched' = [isTouched EXCEPT !.mask = TRUE]
    /\ call' = <<"onChange">>
    /\ noCalculation
    /\ UNCHANGED <<ipAddress, isCalculating, showHistory, hook>>

\* Lines 184-189.
HandleExampleSelect ==
    /\ \E mask \in ExampleMasks :
          /\ subnetMask' = mask
          /\ results' = afterRender(ipAddress, mask, results)
    /\ isTouched' = [isTouched EXCEPT !.mask = TRUE]
    /\ call' = <<"handleExampleSelect">>
    /\ noCalculation
    /\ UNCHANGED <<ipAddress, isCalculating, showHistory, hook>>

\* Lines 191-199; the list is rendered while showHistory (lines 412-417).
HandleHistorySelect ==
    /\ showHistory
    /\ \E i \in 1..Len(history) :
          /\ ipAddress' = history[i].ipAddress
          /\ subnetMask' = history[i].subnetMask
          /\ results' = afterRender(history[i].ipAddress, history[i].subnetMask, results)
    /\ showHistory' = FALSE
    /\ call' = <<"handleHistorySelect">>
    /\ noCalculation
    /\ UNCHANGED <<isCalculating, isTouched, hook>>

\* Lines 213-217.
HandleClear ==
    /\ ipAddress' = <<>>
    /\ subnetMask' = <<>>
    /\ results' = afterRender(<<>>, <<>>, null)
    /\ call' = <<"handleClear">>
    /\ noCalculation
    /\ UNCHANGED <<isCalculating, isTouched, showHistory, hook>>

\* Lines 232-237: the button is rendered while the history is not empty.
ToggleHistory ==
    /\ Len(history) > 0
    /\ showHistory' = ~showHistory
    /\ call' = <<"setShowHistory">>
    /\ noCalculation
    /\ UNCHANGED <<ipAddress, subnetMask, results, isCalculating, isTouched, hook>>

\* Line 417, onClear of the rendered list: clearHistory of the hook.
OnClear ==
    /\ showHistory
    /\ history' = <<>>
    /\ storage' = saveEffect(<<>>, null)
    /\ call' = <<"clearHistory">>
    /\ noCalculation
    /\ UNCHANGED <<ipAddress, subnetMask, form>>

\* Lines 134-181: the try block with the result of line 137, the catch block
\* and the finally block.
Calculate(ip, mask, result) ==
    /\ ipA' = ip
    /\ ipB' = mask
    /\ ret' = result
    /\ IF result.ok
       THEN /\ results' = result.val
            /\ history' = addedToHistory(history, ip, mask, result.val)
            /\ storage' = saveEffect(history', storage)
            /\ call' = <<"handleCalculate", "calculateSubnet", "addToHistory">>
       ELSE /\ call' = <<"handleCalculate", "calculateSubnet">>
            /\ UNCHANGED <<results, hook>>
    /\ isCalculating' = FALSE

\* Lines 94-132: the four tests that return early, on the trimmed inputs.
returnsEarly(ip, mask) ==
    \/ ip = <<>>
    \/ mask = <<>>
    \/ ~isValidIP(ipAddress)
    \/ ~isValidMask(subnetMask)

\* Lines 92-182.  The submit, the Enter key and the button all require
\* isValidIP and isValidMask (lines 268-272, 309-311, 351-353, 378).
HandleCalculate ==
    /\ isValidIP(ipAddress) /\ isValidMask(subnetMask)
    /\ isTouched' = [ip |-> TRUE, mask |-> TRUE]
    /\ IF returnsEarly(trim(ipAddress), trim(subnetMask))
       THEN /\ call' = <<"handleCalculate">>
            /\ ipA' = <<>>
            /\ ipB' = <<>>
            /\ ret' = NotCalled
            /\ UNCHANGED <<results, isCalculating, hook>>
       ELSE Calculate(trim(ipAddress), trim(subnetMask),
                      calculationOf(trim(ipAddress), trim(subnetMask)))
    /\ UNCHANGED <<ipAddress, subnetMask, showHistory, str, num, prev>>

NextForm ==
    \/ OnChangeIp
    \/ OnChangeMask
    \/ HandleExampleSelect
    \/ HandleHistorySelect
    \/ HandleClear
    \/ ToggleHistory
    \/ OnClear
    \/ HandleCalculate

SpecForm == InitForm /\ [][NextForm]_vars

(***************************************************************************)
(* What the properties are stated with: the reading of a string as an       *)
(* address, written without the functions of the library.                   *)
(***************************************************************************)
\* s is a run of 1 to 3 decimal digits.
isOctetGroup(s) == Len(s) \in 1..3 /\ \A i \in 1..Len(s) : s[i] \in DigitChars

\* s is four dot-separated groups of 1 to 3 decimal digits, each at most 255.
isDottedQuad(s) ==
    LET g == split(s, ".")
    IN  /\ Len(g) = 4
        /\ \A i \in 1..4 : isOctetGroup(g[i]) /\ digitsValue(g[i], 10) <= 255

\* The four octets a dotted quad denotes.
addressOf(s) == LET g == split(s, ".") IN [i \in 1..4 |-> digitsValue(g[i], 10)]

\* The dotted quad of an address, no octet with a leading zero.
canonical(q) == dottedString(q, 1)

\* s is a dotted quad that denotes the mask of a prefix length in 0..32.
isContiguousMask(s) ==
    isDottedQuad(s) /\ \E L \in 0..32 : addressOf(s) = prefixMask(L)

\* The prefix length of a contiguous dotted mask.
prefixOfMask(s) == CHOOSE L \in 0..32 : addressOf(s) = prefixMask(L)

\* s is an optionally signed decimal numeral of an integer in 0..32.
isCidrNumeral(s) ==
    LET body == IF Len(s) >= 1 /\ s[1] \in {"+", "-"} THEN Tail(s) ELSE s
    IN  /\ Len(body) \in 1..4
        /\ \A i \in 1..Len(body) : body[i] \in DigitChars
        /\ digitsValue(body, 10) <= 32
        /\ (s[1] = "-" => digitsValue(body, 10) = 0)

\* 2^e as a host count, e in 0..32.
hostCount(e) == IF e < 16 THEN [hi |-> 0, lo |-> 2 ^ e] ELSE [hi |-> 2 ^ (e - 16), lo |-> 0]

\* 2^e - 2 as a host count, e in 2..32.
hostCountLess2(e) ==
    IF e <= 16 THEN [hi |-> 0, lo |-> 2 ^ e - 2]
    ELSE [hi |-> 2 ^ (e - 16) - 1, lo |-> 2 ^ 16 - 2]

\* calculateSubnet(ipAddress, subnetMask) was called.
calculated == call = <<"calculateSubnet">>

\* The input mask is the mask of prefix length L, in dotted or '/n' form.
maskIsPrefix(L) ==
    subnetMask \in {canonical(prefixMask(L)), slash(natToString(L, 10))}

(***************************************************************************)
(* C1.  For every valid IP, the boundary addresses 0.0.0.0 and              *)
(* 255.255.255.255 included, and every mask of prefix length 31 or 32 in    *)
(* dotted or '/n' form, calculateSubnet returns a record with firstHost =   *)
(* networkAddress and lastHost = broadcastAddress; for prefix length 32     *)
(* all four are the input address.                                          *)
(* The code increments the network address and decrements the broadcast     *)
(* address before it looks at the prefix length: 255.255.255.255/32 and     *)
(* 0.0.0.0/32 throw.                                                        *)
(***************************************************************************)
C1_Rfc3021HostsEverywhere ==
    (calculated /\ validateIP(ipAddress) /\ (maskIsPrefix(31) \/ maskIsPrefix(32)))
    => /\ ret.ok
       /\ ret.val.firstHost = ret.val.networkAddress
       /\ ret.val.lastHost = ret.val.broadcastAddress
       /\ maskIsPrefix(32) =>
            /\ ret.val.networkAddress = canonical(addressOf(ipAddress))
            /\ ret.val.broadcastAddress = canonical(addressOf(ipAddress))

(***************************************************************************)
(* C2.  Whenever validateIP(ip) and validateSubnetMask(mask) hold,          *)
(* calculateSubnet returns a record, and it never fails with a kind other   *)
(* than InvalidAddress, InvalidMask or InvalidCidr.                         *)
(* The AddressSpaceExhausted failure of incrementIp and decrementIp         *)
(* escapes for 255.255.255.255/32 and 0.0.0.0/32.                           *)
(***************************************************************************)
C2_ValidInputsReturnRecord ==
    calculated
    => /\ (validateIP(ipAddress) /\ validateSubnetMask(subnetMask)) => ret.ok
       /\ ~ret.ok => ret.kind \in {"InvalidAddress", "InvalidMask", "InvalidCidr"}

(***************************************************************************)
(* C3.  In every record calculateSubnet returns, with cidr the prefix       *)
(* length of its mask: totalHosts = 2^(32 - cidr); usableHosts =            *)
(* 2^(32 - cidr) - 2 for cidr in 0..30, and usableHosts = totalHosts for    *)
(* cidr 31 and 32.                                                          *)
(***************************************************************************)
C3_HostCounts ==
    (calculated /\ ret.ok)
    => /\ isContiguousMask(ret.val.subnetMask)
       /\ \A L \in 0..32 : maskIsPrefix(L) => prefixOfMask(ret.val.subnetMask) = L
       /\ LET cidr == prefixOfMask(ret.val.subnetMask)
          IN  /\ ret.val.totalHosts = hostCount(32 - cidr)
              /\ cidr <= 30 => ret.val.usableHosts = hostCountLess2(32 - cidr)
              /\ cidr >= 31 => ret.val.usableHosts = ret.val.totalHosts

\* A /31 was calculated: two addresses, both usable.
C3_Witness ==
    /\ calculated /\ ret.ok
    /\ maskIsPrefix(31)
    /\ ret.val.totalHosts = [hi |-> 0, lo |-> 2]
    /\ ret.val.usableHosts = [hi |-> 0, lo |-> 2]

\* The prefix length a valid mask string stands for.
prefixOfInput(mask) ==
    IF startsWith(mask, "/") THEN parseInt(Tail(mask), 10).val ELSE prefixOfMask(mask)

(***************************************************************************)
(* C4.  For every valid IP and every valid mask of prefix length 0..30,     *)
(* calculateSubnet returns networkAddress = ip AND mask octet by octet,     *)
(* wildcardMask = the complement of the mask, broadcastAddress =            *)
(* networkAddress OR wildcardMask, firstHost = networkAddress + 1 and       *)
(* lastHost = broadcastAddress - 1.                                         *)
(* An octet of a contiguous mask is 256 - 2^k, so x AND it is x - x mod 2^k *)
(* and the OR with its complement adds 2^k - 1.                             *)
(***************************************************************************)
C4_AddressesOfSubnet ==
    (/\ calculated
     /\ validateIP(ipAddress)
     /\ validateSubnetMask(subnetMask)
     /\ prefixOfInput(subnetMask) \in 0..30)
    => LET m     == prefixMask(prefixOfInput(subnetMask))
           a     == addressOf(ipAddress)
           net   == [i \in 1..4 |-> a[i] - (a[i] % (256 - m[i]))]
           wild  == [i \in 1..4 |-> 255 - m[i]]
           bcast == [i \in 1..4 |-> net[i] + wild[i]]
       IN  /\ ret.ok
           /\ ret.val.networkAddress = canonical(net)
           /\ ret.val.wildcardMask = canonical(wild)
           /\ ret.val.broadcastAddress = canonical(bcast)
           /\ ret.val.firstHost = canonical(quadPlus(net, 1))
           /\ ret.val.lastHost = canonical(quadPlus(bcast, 0 - 1))

\* 172.16.255.255 under a /23: the subnet 172.16.254.0 to 172.16.255.255.
C4_Witness ==
    /\ calculated /\ ret.ok
    /\ ipAddress = canonical(<<172, 16, 255, 255>>)
    /\ subnetMask = canonical(<<255, 255, 254, 0>>)
    /\ ret.val.networkAddress = canonical(<<172, 16, 254, 0>>)
    /\ ret.val.firstHost = canonical(<<172, 16, 254, 1>>)
    /\ ret.val.lastHost = canonical(<<172, 16, 255, 254>>)
    /\ ret.val.broadcastAddress = canonical(<<172, 16, 255, 255>>)

(***************************************************************************)
(* C5.  calculateSubnet classifies invalid input in a fixed order: an       *)
(* invalid IP fails with InvalidAddress whatever the mask; a valid IP with  *)
(* a mask that starts with '/' and whose remainder is not an integer in     *)
(* 0..32 fails with InvalidCidr; a valid IP with any other string that is   *)
(* not a contiguous dotted-decimal mask fails with InvalidMask.             *)
(* parseInt reads the leading digits and ignores the rest, so '/24abc' and  *)
(* '/24.5' are taken as /24 and a record is returned.                       *)
(***************************************************************************)
C5_InvalidInputClassified ==
    calculated
    => /\ ~validateIP(ipAddress) => (~ret.ok /\ ret.kind = "InvalidAddress")
       /\ (/\ validateIP(ipAddress)
           /\ startsWith(subnetMask, "/")
           /\ ~isCidrNumeral(Tail(subnetMask)))
          => (~ret.ok /\ ret.kind = "InvalidCidr")
       /\ (/\ validateIP(ipAddress)
           /\ ~startsWith(subnetMask, "/")
           /\ ~isContiguousMask(subnetMask))
          => (~ret.ok /\ ret.kind = "InvalidMask")

\* binaryToIp was applied to the result of ipToBinary(str).
roundTripBinary == call = <<"ipToBinary", "binaryToIp">>

\* No group of the dotted quad s has a leading zero before another digit.
noLeadingZeros(s) ==
    LET g == split(s, ".") IN \A i \in 1..Len(g) : Len(g[i]) > 1 => g[i][1] # "0"

(***************************************************************************)
(* C6.  For every string s accepted by validateIP, strings whose groups     *)
(* carry leading zeros included, binaryToIp(ipToBinary(s)) returns exactly  *)
(* s.                                                                       *)
(* The binary form keeps the value of a group, not its spelling:            *)
(* '192.168.001.001' comes back as '192.168.1.1'.                           *)
(***************************************************************************)
C6_RoundTripExact ==
    /\ (call = <<"ipToBinary">> /\ validateIP(str)) => ret.ok
    /\ roundTripBinary => (ret.ok /\ ret.val = str)

\* C6 as amended: for every string s accepted by validateIP,
\* binaryToIp(ipToBinary(s)) returns the address of s with every octet
\* written without leading zeros, which is s exactly when no group of s has
\* a leading zero.
C6_RoundTripCanonical ==
    /\ (call = <<"ipToBinary">> /\ validateIP(str)) => ret.ok
    /\ roundTripBinary
       => /\ validateIP(str)
          /\ ret.ok
          /\ ret.val = canonical(addressOf(str))
          /\ (ret.val = str) <=> noLeadingZeros(str)

\* '192.168.001.001' went through both conversions.
C6_Witness ==
    /\ roundTripBinary
    /\ str = dottedString(<<192, 168, 1, 1>>, 3)
    /\ ret.ok
    /\ ret.val = canonical(<<192, 168, 1, 1>>)

(***************************************************************************)
(* C7.  For every integer n in 0..32, cidrToMask(n) is accepted by          *)
(* validateSubnetMask and maskToCidr(cidrToMask(n)) = n.                    *)
(***************************************************************************)
C7_CidrMaskCidr ==
    (~num.nan /\ num.val \in 0..32)
    => /\ call = <<"cidrToMask">> => ret.ok
       /\ call = <<"cidrToMask", "validateSubnetMask">> => ret.val = TRUE
       /\ call = <<"cidrToMask", "maskToCidr">> => (ret.ok /\ ret.val = num.val)

\* 23 went to 255.255.254.0 and back.
C7_Witness ==
    /\ call = <<"cidrToMask", "maskToCidr">>
    /\ num = Num(23)
    /\ ret.ok
    /\ ret.val = 23

\* cidrToMask was applied to the result of maskToCidr(str).
roundTripMask == call = <<"maskToCidr", "cidrToMask">>

(***************************************************************************)
(* C8.  For every dotted-decimal string m accepted by validateSubnetMask,   *)
(* cidrToMask(maskToCidr(m)) returns exactly m.                             *)
(* validateSubnetMask accepts '255.255.255.000', which comes back as        *)
(* '255.255.255.0'.                                                         *)
(***************************************************************************)
C8_MaskRoundTripExact ==
    /\ (call = <<"maskToCidr">> /\ ~startsWith(str, "/") /\ validateSubnetMask(str))
       => ret.ok
    /\ roundTripMask => (ret.ok /\ ret.val = str)

\* C8 as amended: for every dotted-decimal string m accepted by
\* validateSubnetMask, cidrToMask(maskToCidr(m)) returns the mask of m with
\* every octet written without leading zeros, which is m exactly when no
\* group of m has a leading zero.
C8_MaskRoundTripCanonical ==
    /\ (call = <<"maskToCidr">> /\ ~startsWith(str, "/") /\ validateSubnetMask(str))
       => ret.ok
    /\ roundTripMask
       => /\ ~startsWith(str, "/")
          /\ validateSubnetMask(str)
          /\ ret.ok
          /\ ret.val = canonical(addressOf(str))
          /\ (ret.val = str) <=> noLeadingZeros(str)

\* '255.128.000.000' went to 9 and back to '255.128.0.0'.
C8_Witness ==
    /\ roundTripMask
    /\ str = dottedString(<<255, 128, 0, 0>>, 3)
    /\ ret.ok
    /\ ret.val = canonical(<<255, 128, 0, 0>>)

(***************************************************************************)
(* C9.  validateIP(s) is true if and only if s is exactly four              *)
(* dot-separated groups of 1 to 3 decimal digits, each of value 0..255; it  *)
(* is false for missing or extra groups, an empty group, a non-digit        *)
(* character, an out-of-range octet, the empty string, and leading or       *)
(* trailing white space.                                                    *)
(***************************************************************************)
C9_ValidateIP ==
    call = <<"validateIP">>
    => /\ ret.val <=> isDottedQuad(str)
       /\ str \in MalformedIps => ret.val = FALSE

\* A string with a leading blank was rejected.
C9_Witness ==
    /\ call = <<"validateIP">>
    /\ str = <<" ">> \o canonical(<<1, 2, 3, 4>>)
    /\ ret.val = FALSE

(***************************************************************************)
(* C10.  For a string that does not start with '/', validateSubnetMask is   *)
(* true if and only if validateIP accepts the string and its 32 bits are L  *)
(* ones followed by 32 - L zeros for some L in 0..32: 255.255.254.0 is      *)
(* accepted; 255.255.255.1, 256.255.255.0 and three octets are rejected.    *)
(***************************************************************************)
C10_ValidateDottedMask ==
    (call = <<"validateSubnetMask">> /\ ~startsWith(str, "/"))
    => /\ ret.val <=> (validateIP(str) /\ \E L \in 0..32 : addressOf(str) = prefixMask(L))
       /\ str = canonical(<<255, 255, 254, 0>>) => ret.val = TRUE
       /\ str \in {canonical(<<255, 255, 255, 1>>),
                   <<"2", "5", "6", ".", "2", "5", "5", ".", "2", "5", "5", ".", "0">>,
                   <<"2", "5", "5", ".", "2", "5", "5", ".", "2", "5", "5">>}
          => ret.val = FALSE

\* 255.255.254.0 was accepted.
C10_Witness ==
    /\ call = <<"validateSubnetMask">>
    /\ str = canonical(<<255, 255, 254, 0>>)
    /\ ret.val = TRUE


(***************************************************************************)
(* C11.  For a string that starts with "/", validateSubnetMask is true     *)
(* exactly when the whole remainder after the slash is the decimal numeral *)
(* of an integer in 0..32: an empty or non-numeric remainder, a value      *)
(* below 0 or above 32, and digits followed by other characters ("/24abc", *)
(* "/24.5") are all rejected.                                              *)
(***************************************************************************)
C11_CidrFormWholeRemainder ==
    call = <<"validateSubnetMask">> /\ startsWith(str, "/")
    => (ret.val <=> isCidrNumeral(Tail(str)))


\* s is four dot-separated groups of exactly 8 binary digits.
isBinaryQuad(s) ==
    LET g == split(s, ".")
    IN  /\ Len(g) = 4
        /\ \A i \in 1..4 : Len(g[i]) = 8 /\ \A k \in 1..8 : g[i][k] \in {"0", "1"}

\* The octet that 8 binary digits denote.
octetOfBits(g) ==
    LET b(k) == IF g[k] = "1" THEN 1 ELSE 0
    IN  128 * b(1) + 64 * b(2) + 32 * b(3) + 16 * b(4)
        + 8 * b(5) + 4 * b(6) + 2 * b(7) + b(8)

(***************************************************************************)
(* C12.  binaryToIp accepts exactly the strings of four groups of exactly  *)
(* 8 binary digits separated by single dots, and returns the four decimal  *)
(* values joined by dots, a string validateIP accepts.  Every other string *)
(* fails with InvalidFormat: 32 digits without dots, some dots missing, a  *)
(* trailing dot, a wrong number of groups or digits, a non-binary          *)
(* character.                                                              *)
(***************************************************************************)
C12_BinaryToIpStrict ==
    call = <<"binaryToIp">>
    => IF isBinaryQuad(str)
       THEN /\ ret.ok
            /\ ret.val = canonical([i \in 1..4 |-> octetOfBits(split(str, ".")[i])])
            /\ validateIP(ret.val)
       ELSE ~ret.ok /\ ret.kind = "InvalidFormat"


(***************************************************************************)
(* C13.  maskToCidr fails with InvalidMask exactly when validateSubnetMask *)
(* rejects the string.  For every string validateSubnetMask accepts,       *)
(* dotted or "/n", it returns the number of one-bits of the mask, in       *)
(* 0..32; it never returns a count for a non-contiguous mask.              *)
(***************************************************************************)
C13_MaskToCidrOfAccepted ==
    call = <<"maskToCidr">>
    => IF ~validateSubnetMask(str)
       THEN ~ret.ok /\ ret.kind = "InvalidMask"
       ELSE /\ ret.ok
            /\ ret.val \in 0..32
            /\ startsWith(str, "/") => ret.val = parseInt(Tail(str), 10).val
            /\ ~startsWith(str, "/")
               => isContiguousMask(str) /\ ret.val = prefixOfMask(str)


(***************************************************************************)
(* C14.  For every dotted-decimal mask validateSubnetMask accepts,         *)
(* getWildcardMask returns four dot-separated octets, octet i equal to 255 *)
(* minus octet i of the mask; for every string validateSubnetMask rejects  *)
(* it fails with InvalidMask.                                              *)
(***************************************************************************)
C14_WildcardOfDottedMask ==
    call = <<"getWildcardMask">>
    => /\ isContiguousMask(str)
          => /\ validateSubnetMask(str)
             /\ ret.ok
             /\ ret.val = canonical([i \in 1..4 |-> 255 - addressOf(str)[i]])
       /\ ~validateSubnetMask(str) => (~ret.ok /\ ret.kind = "InvalidMask")

\* 255.255.255.252 gave 0.0.0.3.
C14_Witness ==
    /\ call = <<"getWildcardMask">>
    /\ str = canonical(<<255, 255, 255, 252>>)
    /\ ret.ok
    /\ ret.val = canonical(<<0, 0, 0, 3>>)


(***************************************************************************)
(* C15.  For every integer n in 0..32, cidrToMask(n) returns the           *)
(* dotted-decimal mask with exactly the first n bits set: octet i (0..3)   *)
(* has clamp(n - 8i, 0, 8) leading one bits.  For n < 0, n > 32 or NaN it  *)
(* fails with OutOfRange.                                                  *)
(***************************************************************************)
C15_CidrToMask ==
    call = <<"cidrToMask">>
    => IF ~num.nan /\ num.val \in 0..32
       THEN ret.ok /\ ret.val = canonical(prefixMask(num.val))
       ELSE ~ret.ok /\ ret.kind = "OutOfRange"

\* 19 gave 255.255.224.0.
C15_Witness ==
    /\ call = <<"cidrToMask">>
    /\ num = Num(19)
    /\ ret.ok
    /\ ret.val = canonical(<<255, 255, 224, 0>>)


\* The 32-bit value of an address as two 16-bit halves.
value16(q) == [hi |-> q[1] * 256 + q[2], lo |-> q[3] * 256 + q[4]]

\* The address of a 32-bit value given as two 16-bit halves.
quadOfValue(v) == <<v.hi \div 256, v.hi % 256, v.lo \div 256, v.lo % 256>>

\* The value plus one and minus one.
plusOne(v) == IF v.lo < 65535 THEN [v EXCEPT !.lo = @ + 1] ELSE [hi |-> v.hi + 1, lo |-> 0]

minusOne(v) == IF v.lo > 0 THEN [v EXCEPT !.lo = @ - 1] ELSE [hi |-> v.hi - 1, lo |-> 65535]

(***************************************************************************)
(* C16.  For every valid IPv4 string other than 255.255.255.255,           *)
(* incrementIp returns the dotted-decimal address whose 32-bit value is    *)
(* the value of the argument plus 1, carrying across octets; for           *)
(* 255.255.255.255 it fails with AddressSpaceExhausted, for an invalid     *)
(* string with InvalidAddress.                                             *)
(***************************************************************************)
C16_IncrementIp ==
    call = <<"incrementIp">>
    => IF ~isDottedQuad(str)
       THEN ~ret.ok /\ ret.kind = "InvalidAddress"
       ELSE IF addressOf(str) = <<255, 255, 255, 255>>
       THEN ~ret.ok /\ ret.kind = "AddressSpaceExhausted"
       ELSE /\ ret.ok
            /\ ret.val = canonical(quadOfValue(plusOne(value16(addressOf(str)))))

\* 172.16.255.255 carried into the second octet.
C16_Witness ==
    /\ call = <<"incrementIp">>
    /\ str = canonical(<<172, 16, 255, 255>>)
    /\ ret.ok
    /\ ret.val = canonical(<<172, 17, 0, 0>>)

(***************************************************************************)
(* C17.  For every valid IPv4 string other than 0.0.0.0, decrementIp       *)
(* returns the dotted-decimal address whose 32-bit value is the value of   *)
(* the argument minus 1, borrowing across octets; for 0.0.0.0 it fails     *)
(* with AddressSpaceExhausted, for an invalid string with InvalidAddress.  *)
(***************************************************************************)
C17_DecrementIp ==
    call = <<"decrementIp">>
    => IF ~isDottedQuad(str)
       THEN ~ret.ok /\ ret.kind = "InvalidAddress"
       ELSE IF addressOf(str) = <<0, 0, 0, 0>>
       THEN ~ret.ok /\ ret.kind = "AddressSpaceExhausted"
       ELSE /\ ret.ok
            /\ ret.val = canonical(quadOfValue(minusOne(value16(addressOf(str)))))

\* 128.0.0.0 borrowed from the first octet.
C17_Witness ==
    /\ call = <<"decrementIp">>
    /\ str = canonical(<<128, 0, 0, 0>>)
    /\ ret.ok
    /\ ret.val = canonical(<<127, 255, 255, 255>>)


(***************************************************************************)
(* C18.  For every string validateIP accepts, ipToBinary returns four      *)
(* groups of exactly 8 binary digits joined by dots, group i the           *)
(* zero-padded binary numeral of octet i; for every string validateIP      *)
(* rejects it fails with InvalidAddress.                                   *)
(***************************************************************************)
C18_IpToBinary ==
    call = <<"ipToBinary">>
    => IF isDottedQuad(str)
       THEN /\ ret.ok
            /\ isBinaryQuad(ret.val)
            /\ \A i \in 1..4 : octetOfBits(split(ret.val, ".")[i]) = addressOf(str)[i]
       ELSE ~ret.ok /\ ret.kind = "InvalidAddress"

\* 10.0.0.255 gave 00001010.00000000.00000000.11111111.
C18_Witness ==
    /\ call = <<"ipToBinary">>
    /\ str = canonical(<<10, 0, 0, 255>>)
    /\ ret.ok
    /\ ret.val = binaryString(<<10, 0, 0, 255>>, <<<<".">>, <<".">>, <<".">>, <<>>>>)


\* The bitwise OR of two octets, bit by bit.
orOfOctets(x, y) ==
    LET b(k) == IF (x \div 2 ^ k) % 2 = 1 \/ (y \div 2 ^ k) % 2 = 1 THEN 2 ^ k ELSE 0
    IN  b(0) + b(1) + b(2) + b(3) + b(4) + b(5) + b(6) + b(7)

(***************************************************************************)
(* C20.  bitwiseOr(ipA, ipB) checks both operands before computing: if     *)
(* validateIP rejects either operand it fails with InvalidAddress and      *)
(* returns nothing; otherwise it returns the dotted-decimal string whose   *)
(* octet i is the bitwise OR of octet i of ipA and octet i of ipB.         *)
(***************************************************************************)
C20_BitwiseOr ==
    call = <<"bitwiseOr">>
    => IF isDottedQuad(ipA) /\ isDottedQuad(ipB)
       THEN /\ ret.ok
            /\ ret.val = canonical([i \in 1..4 |->
                                      orOfOctets(addressOf(ipA)[i], addressOf(ipB)[i])])
       ELSE ~ret.ok /\ ret.kind = "InvalidAddress" /\ ret.val = <<>>

\* 192.168.1.0 | 10.0.0.255 = 202.168.1.255.
C20_Witness ==
    /\ call = <<"bitwiseOr">>
    /\ ipA = canonical(<<192, 168, 1, 0>>)
    /\ ipB = canonical(<<10, 0, 0, 255>>)
    /\ ret.ok
    /\ ret.val = canonical(<<202, 168, 1, 255>>)


\* The bitwise AND of two octets, bit by bit.
andOfOctets(x, y) ==
    LET b(k) == IF (x \div 2 ^ k) % 2 = 1 /\ (y \div 2 ^ k) % 2 = 1 THEN 2 ^ k ELSE 0
    IN  b(0) + b(1) + b(2) + b(3) + b(4) + b(5) + b(6) + b(7)

(***************************************************************************)
(* C21.  bitwiseAnd validates its own preconditions: when either operand   *)
(* is not a well-formed four-octet IPv4 string it fails with               *)
(* InvalidAddress instead of returning a value; when both operands are     *)
(* valid it returns the dotted-decimal string whose octet i is the bitwise *)
(* AND of octet i of the operands.                                         *)
(***************************************************************************)
C21_BitwiseAndValidates ==
    call = <<"bitwiseAnd">>
    => IF isDottedQuad(ipA) /\ isDottedQuad(ipB)
       THEN /\ ret.ok
            /\ ret.val = canonical([i \in 1..4 |->
                                      andOfOctets(addressOf(ipA)[i], addressOf(ipB)[i])])
       ELSE ~ret.ok /\ ret.kind = "InvalidAddress"


(***************************************************************************)
(* C22.  Whenever getWildcardMask returns a value instead of failing, for  *)
(* any input string at all (a "/n" string validateSubnetMask accepts       *)
(* included), the returned value is a well-formed four-octet IPv4 string   *)
(* that validateIP accepts and that is the bitwise complement of a valid   *)
(* subnet mask.                                                            *)
(***************************************************************************)
C22_WildcardWellFormed ==
    (call = <<"getWildcardMask">> /\ ret.ok)
    => /\ isDottedQuad(ret.val)
       /\ validateIP(ret.val)
       /\ \E L \in 0..32 :
              addressOf(ret.val) = [i \in 1..4 |-> 255 - prefixMask(L)[i]]


\* v <= w for 32-bit values given as two 16-bit halves.
atMost(v, w) == v.hi < w.hi \/ (v.hi = w.hi /\ v.lo <= w.lo)

\* The number of addresses from v to w inclusive, as a host count.
addressesBetween(v, w) ==
    LET hi == w.hi - v.hi
        lo == w.lo - v.lo + 1
    IN  IF lo < 0 THEN [hi |-> hi - 1, lo |-> lo + 65536]
        ELSE IF lo >= 65536 THEN [hi |-> hi + 1, lo |-> lo - 65536]
        ELSE [hi |-> hi, lo |-> lo]

\* The 32-bit value of a dotted quad.
valueOf(s) == value16(addressOf(s))

(***************************************************************************)
(* C23.  In every record calculateSubnet returns, read as 32-bit values:   *)
(* networkAddress <= ip <= broadcastAddress; broadcastAddress -            *)
(* networkAddress + 1 equals totalHosts; networkAddress has every host bit *)
(* (every bit set in wildcardMask) equal to 0 and broadcastAddress has     *)
(* every host bit equal to 1; networkAddress and broadcastAddress agree    *)
(* with ip on every bit set in subnetMask.                                 *)
(***************************************************************************)
C23_RecordBrackets ==
    (calculated /\ ret.ok)
    => /\ isDottedQuad(ret.val.networkAddress)
       /\ isDottedQuad(ret.val.broadcastAddress)
       /\ isDottedQuad(ret.val.wildcardMask)
       /\ isDottedQuad(ret.val.subnetMask)
       /\ LET ip    == addressOf(ipAddress)
              net   == addressOf(ret.val.networkAddress)
              bcast == addressOf(ret.val.broadcastAddress)
              wild  == addressOf(ret.val.wildcardMask)
              mask  == addressOf(ret.val.subnetMask)
          IN  /\ atMost(value16(net), value16(ip))
              /\ atMost(value16(ip), value16(bcast))
              /\ addressesBetween(value16(net), value16(bcast)) = ret.val.totalHosts
              /\ \A i \in 1..4 :
                    /\ andOfOctets(net[i], wild[i]) = 0
                    /\ andOfOctets(bcast[i], wild[i]) = wild[i]
                    /\ andOfOctets(net[i], mask[i]) = andOfOctets(ip[i], mask[i])
                    /\ andOfOctets(bcast[i], mask[i]) = andOfOctets(ip[i], mask[i])

\* 10.0.1.0/20: the 4096 addresses 10.0.0.0 .. 10.0.15.255.
C23_Witness ==
    /\ calculated /\ ret.ok
    /\ ipAddress = canonical(<<10, 0, 1, 0>>)
    /\ subnetMask = slash(<<"2", "0">>)
    /\ ret.val.networkAddress = canonical(<<10, 0, 0, 0>>)
    /\ ret.val.broadcastAddress = canonical(<<10, 0, 15, 255>>)
    /\ ret.val.totalHosts = [hi |-> 0, lo |-> 4096]


(***************************************************************************)
(* C24.  In every record calculateSubnet returns, for every prefix length  *)
(* 0..32: networkAddress <= firstHost <= lastHost <= broadcastAddress as   *)
(* 32-bit values, and the number of addresses from firstHost to lastHost   *)
(* inclusive equals usableHosts.                                           *)
(***************************************************************************)
C24_HostsWithinSubnet ==
    (calculated /\ ret.ok)
    => /\ isDottedQuad(ret.val.firstHost)
       /\ isDottedQuad(ret.val.lastHost)
       /\ atMost(valueOf(ret.val.networkAddress), valueOf(ret.val.firstHost))
       /\ atMost(valueOf(ret.val.firstHost), valueOf(ret.val.lastHost))
       /\ atMost(valueOf(ret.val.lastHost), valueOf(ret.val.broadcastAddress))
       /\ addressesBetween(valueOf(ret.val.firstHost), valueOf(ret.val.lastHost))
          = ret.val.usableHosts

\* 192.168.1.1/31: the two hosts are the two addresses of the subnet.
C24_Witness ==
    /\ calculated /\ ret.ok
    /\ ipAddress = canonical(<<192, 168, 1, 1>>)
    /\ maskIsPrefix(31)
    /\ ret.val.firstHost = canonical(<<192, 168, 1, 0>>)
    /\ ret.val.lastHost = canonical(<<192, 168, 1, 1>>)
    /\ ret.val.usableHosts = [hi |-> 0, lo |-> 2]


(***************************************************************************)
(* A caller that applies calculateSubnet a second time: to another address *)
(* of the same subnet with the same mask, or to the same address with the  *)
(* dotted form cidrToMask gives for the prefix length.  ipA and ipB are    *)
(* the arguments of the second call, prev is the outcome of the first.     *)
(***************************************************************************)
\* The mask a valid mask string stands for.
maskOfInput(mask) == prefixMask(prefixOfInput(mask))

\* Two addresses lie in the same subnet under a mask.
sameSubnet(a, b, m) ==
    \A i \in 1..4 : andOfOctets(a[i], m[i]) = andOfOctets(b[i], m[i])

\* The addresses at hand for the second call: the base addresses, the padded
\* addresses with a leading zero, and the two ends of the subnet in the record
\* the first call returned.
SecondInputs ==
    {dottedString(q, 1) : q \in BaseAddresses} \cup {dottedString(q, 2) : q \in PaddedAddresses}

SecondAddresses ==
    SecondInputs
    \cup (IF ret.ok
          THEN {b \in {ret.val.networkAddress, ret.val.broadcastAddress} : validateIP(b)}
          ELSE {})

CalculateSubnetOfSameSubnet ==
    /\ call = <<"calculateSubnet">>
    /\ validateIP(ipAddress)
    /\ validateSubnetMask(subnetMask)
    /\ LET m == maskOfInput(subnetMask)
           a == addressOf(ipAddress)
       IN  \E b \in SecondAddresses :
              /\ sameSubnet(a, addressOf(b), m)
              /\ ipA' = b
              /\ ipB' = subnetMask
              /\ ret' = calculateSubnet(b, subnetMask)
    /\ prev' = ret
    /\ call' = Append(call, "calculateSubnet")
    /\ UNCHANGED <<ipAddress, subnetMask, str, num, hook, form>>

\* '/' + n for an integer n in 0..32, then the call with cidrToMask(n).
CalculateSubnetOfDottedForm ==
    /\ call = <<"calculateSubnet">>
    /\ validateIP(ipAddress)
    /\ \E n \in 0..32 :
          /\ subnetMask = slash(natToString(n, 10))
          /\ LET mask == cidrToMask(Num(n))
             IN  /\ mask.ok
                 /\ ipA' = ipAddress
                 /\ ipB' = mask.val
                 /\ ret' = calculateSubnet(ipAddress, mask.val)
    /\ prev' = ret
    /\ call' = call \o <<"cidrToMask", "calculateSubnet">>
    /\ UNCHANGED <<ipAddress, subnetMask, str, num, hook, form>>

NextTwice ==
    \/ CalculateSubnet
    \/ CalculateSubnetOfSameSubnet
    \/ CalculateSubnetOfDottedForm

SpecTwice == Init /\ [][NextTwice]_vars

\* The fields of a record other than binaryIP.
exceptBinaryIP(r) ==
    <<r.networkAddress, r.broadcastAddress, r.firstHost, r.lastHost, r.totalHosts,
      r.usableHosts, r.subnetMask, r.wildcardMask, r.binaryMask>>

(***************************************************************************)
(* C25.  calculateSubnet depends on the IP only through its subnet: for    *)
(* every valid mask m and every two valid IPs a and b with the same        *)
(* octet-wise AND with m, calculateSubnet(a, m) and calculateSubnet(b, m)  *)
(* either both fail or both return records equal in every field except    *)
(* binaryIP; in particular calculateSubnet(r.networkAddress, m) returns    *)
(* the networkAddress, broadcastAddress, firstHost and lastHost of the     *)
(* record r it was taken from.                                             *)
(***************************************************************************)
C25_OnlyTheSubnetMatters ==
    (/\ call = <<"calculateSubnet", "calculateSubnet">>
     /\ ipB = subnetMask
     /\ isDottedQuad(ipAddress) /\ isDottedQuad(ipA)
     /\ validateSubnetMask(subnetMask)
     /\ sameSubnet(addressOf(ipAddress), addressOf(ipA), maskOfInput(subnetMask)))
    => /\ prev.ok <=> ret.ok
       /\ ret.ok => exceptBinaryIP(ret.val) = exceptBinaryIP(prev.val)
       /\ (prev.ok /\ ipA = prev.val.networkAddress)
          => /\ ret.val.networkAddress = prev.val.networkAddress
             /\ ret.val.broadcastAddress = prev.val.broadcastAddress
             /\ ret.val.firstHost = prev.val.firstHost
             /\ ret.val.lastHost = prev.val.lastHost

\* 192.168.1.1/24 and then its network address 192.168.1.0 with the same mask.
C25_Witness ==
    /\ call = <<"calculateSubnet", "calculateSubnet">>
    /\ ipAddress = canonical(<<192, 168, 1, 1>>)
    /\ subnetMask = slash(<<"2", "4">>)
    /\ ipB = subnetMask
    /\ prev.ok /\ ret.ok
    /\ ipA = prev.val.networkAddress
    /\ ipA = canonical(<<192, 168, 1, 0>>)
    /\ ret.val.broadcastAddress = canonical(<<192, 168, 1, 255>>)


(***************************************************************************)
(* C26.  The CIDR and the dotted-decimal mask forms are equivalent at the  *)
(* entry point: for every valid IP and every integer n in 0..32,           *)
(* calculateSubnet(ip, '/' + n) and calculateSubnet(ip, cidrToMask(n))     *)
(* have identical outcomes (the same failure, or records equal field for   *)
(* field); the subnetMask field of a returned record is always in          *)
(* dotted-decimal form, never the '/n' form.                               *)
(***************************************************************************)
C26_CidrAndDottedFormsAgree ==
    /\ \A n \in 0..32 :
          (/\ call = <<"calculateSubnet", "cidrToMask", "calculateSubnet">>
           /\ isDottedQuad(ipAddress)
           /\ ipA = ipAddress
           /\ subnetMask = slash(natToString(n, 10))
           /\ ipB = canonical(prefixMask(n)))
          => /\ ret.ok <=> prev.ok
             /\ ret.ok => \A f \in DOMAIN ret.val : ret.val[f] = prev.val[f]
             /\ ~ret.ok => (ret.kind = prev.kind /\ ret.msg = prev.msg)
    /\ (Len(call) >= 1 /\ call[Len(call)] = "calculateSubnet" /\ ret.ok)
       => /\ ~startsWith(ret.val.subnetMask, "/")
          /\ isDottedQuad(ret.val.subnetMask)

\* 10.0.0.255 with /20 and then with 255.255.240.0: the same record.
C26_Witness ==
    /\ call = <<"calculateSubnet", "cidrToMask", "calculateSubnet">>
    /\ ipAddress = canonical(<<10, 0, 0, 255>>)
    /\ subnetMask = slash(<<"2", "0">>)
    /\ ipB = canonical(<<255, 255, 240, 0>>)
    /\ prev.ok /\ ret.ok
    /\ ret.val.subnetMask = ipB
    /\ ret.val.broadcastAddress = canonical(<<10, 0, 15, 255>>)


(***************************************************************************)
(* C27.  incrementIp and decrementIp are mutual inverses on address        *)
(* values: for every valid IP other than 255.255.255.255,                  *)
(* decrementIp(incrementIp(ip)) denotes the same 32-bit address as ip, and *)
(* for every valid IP other than 0.0.0.0, incrementIp(decrementIp(ip))     *)
(* denotes the same 32-bit address as ip; every value either operation     *)
(* returns is accepted by validateIP.                                      *)
(***************************************************************************)
C27_IncrementDecrementInverse ==
    /\ (isDottedQuad(str) /\ addressOf(str) # <<255, 255, 255, 255>>)
       => /\ call = <<"incrementIp">> => ret.ok
          /\ call = <<"incrementIp", "decrementIp">>
             => (ret.ok /\ isDottedQuad(ret.val) /\ addressOf(ret.val) = addressOf(str))
    /\ (isDottedQuad(str) /\ addressOf(str) # <<0, 0, 0, 0>>)
       => /\ call = <<"decrementIp">> => ret.ok
          /\ call = <<"decrementIp", "incrementIp">>
             => (ret.ok /\ isDottedQuad(ret.val) /\ addressOf(ret.val) = addressOf(str))
    /\ (Len(call) >= 1 /\ call[Len(call)] \in {"incrementIp", "decrementIp"} /\ ret.ok)
       => (isDottedQuad(ret.val) /\ validateIP(ret.val))

\* 10.0.1.0 went down to 10.0.0.255 and came back.
C27_Witness ==
    /\ call = <<"decrementIp", "incrementIp">>
    /\ str = canonical(<<10, 0, 1, 0>>)
    /\ prev.ok /\ prev.val = canonical(<<10, 0, 0, 255>>)
    /\ ret.ok /\ ret.val = str


\* The (ipAddress, subnetMask) pairs of a history, in its order.
pairsOf(items) == [i \in 1..Len(items) |-> <<items[i].ipAddress, items[i].subnetMask>>]

\* A list of pairs without one pair, the others in their order.
without(pairs, p) == SelectSeq(pairs, LAMBDA q : q # p)

occursIn(pairs, p) == \E i \in 1..Len(pairs) : pairs[i] = p

(***************************************************************************)
(* C28.  Starting from an empty history, after any sequence of             *)
(* addToHistory and clearHistory calls the history holds at most 5 items   *)
(* and no two items with the same (ipAddress, subnetMask) pair; after an   *)
(* add the added pair is at the head and the remaining items keep their    *)
(* previous relative order; adding a pair already present moves it to the  *)
(* head without changing the length; an add drops the oldest item only     *)
(* when 5 other pairs are already present; the history is empty            *)
(* immediately after clearHistory.                                         *)
(***************************************************************************)
C28_HistoryList ==
    [][LET old   == pairsOf(history)
           new   == pairsOf(history')
           added == <<ipA', ipB'>>
       IN  /\ Len(new) <= 5
           /\ \A i, j \in 1..Len(new) : i # j => new[i] # new[j]
           /\ call' = <<"clearHistory">> => history' = <<>>
           /\ call' = <<"addToHistory">>
              => /\ Len(new) >= 1
                 /\ new[1] = added
                 /\ occursIn(old, added)
                    => (Len(new) = Len(old) /\ Tail(new) = without(old, added))
                 /\ (~occursIn(old, added) /\ Len(old) < 5) => Tail(new) = old
                 /\ (~occursIn(old, added) /\ Len(old) = 5)
                    => Tail(new) = SubSeq(old, 1, 4)]_vars

\* Five pairs are held, the last one added at the head.
C28_Witness ==
    /\ call = <<"addToHistory">>
    /\ Len(history) = 5
    /\ history[1].ipAddress = ipA /\ history[1].subnetMask = ipB
    /\ history[1].ipAddress = history[2].ipAddress
    /\ history[1].subnetMask = history[3].subnetMask

C30_NoStaleResults ==
    [][/\ results' # null
          => Ok(results') = calculateSubnet(trim(ipAddress'), trim(subnetMask'))
       /\ (ipAddress' # ipAddress \/ subnetMask' # subnetMask) => results' = null
       /\ (\E i \in 1..Len(call') : call'[i] = "calculateSubnet")
          => /\ ipA' = trim(ipAddress') /\ ipB' = trim(subnetMask')
             /\ ipA' # <<>> /\ ipB' # <<>>
             /\ validateIP(ipA') /\ validateSubnetMask(ipB')
       /\ isCalculating' = FALSE]_vars

\* A calculation on inputs typed with spaces around them succeeded: its
\* results are shown and it is the third pair of the history.
C30_Witness ==
    /\ call = <<"handleCalculate", "calculateSubnet", "addToHistory">>
    /\ ipAddress # trim(ipAddress)
    /\ subnetMask # trim(subnetMask)
    /\ results # null
    /\ results = ret.val
    /\ results.subnetMask = dottedString(prefixMask(32), 1)
    /\ Len(history) = 3
    /\ history[1].ipAddress = trim(ipAddress)
    /\ ~isCalculating

====
